---- MODULE Spec2Model ----
(***************************************************************************)
(* State-machine model of the order-book feed core.                        *)
(*   Spec     the Producer Host (worker/orderbook.worker.ts) composing the *)
(*            Transport Client (worker/binance-ws.ts), the Sequence        *)
(*            Manager (worker/sequence-manager.ts) and the Book Engine     *)
(*            (worker/orderbook-processor.ts)                              *)
(*   SpecTC   the same host under failing connection attempts              *)
(*   SpecRC   the same host under the reconciliation scenario of the feed  *)
(*   SpecFB   the Frame Bridge (hooks/useRAFBridge.ts) and the store       *)
(*            (store/orderbook.ts)                                         *)
(*   SpecTD   teardown of the session and what the torn-down Sequence      *)
(*            Manager still does                                           *)
(*   SpecSH   the shared host and its ports (SharedWorker)                 *)
(*   SpecBE   the level maps of the Book Engine under parsed input         *)
(*   SpecBC   the leader's page in broadcast mode (hooks/useWorker.ts,     *)
(*            useBroadcastMode) and its BroadcastChannel                   *)
(*   SpecLE   leader election over localStorage (lib/leader-election.ts);  *)
(*            SpecLEFair adds fairness of the tabs' handlers               *)
(*   SpecSAB  the shared-memory writer and reader (lib/binary-protocol.ts, *)
(*            hooks/useRAFBridge.ts useSABWorker)                          *)
(*   SpecVC   SpecSAB with the version counter taken to the end of Int32   *)
(*   SpecFZ   the bridge, the store and the shared-memory reader together, *)
(*            for what freeze and unfreeze show                            *)
(* Handlers of the host are modelled as functions from the host's state (a *)
(* record holding the fields of the objects the handler can touch) to its  *)
(* state after the handler has returned; an action applies one handler.    *)
(***************************************************************************)
EXTENDS Integers, Sequences, FiniteSets, TLC

(***************************************************************************)
(* Program constants                                                       *)
(***************************************************************************)
MAX_SNAPSHOT_RETRIES == 3

GAP_TOLERANCE == 1000

MAX_RETRIES == 5

\* lib/leader-election.ts
STALE_THRESHOLD == 5000

\* lib/binary-protocol.ts
BUFFER_SIZE == 2048

MAX_DEPTH == 15

HEADER_SIZE == 56

LEVEL_STRIDE == 32

(***************************************************************************)
(* Bounds of the model                                                     *)
(***************************************************************************)
\* number of snapshot requests and fetch timers outstanding at one time
MaxFetches == 2

\* the longest delta buffer explored (the code's buffer has no cap)
MaxBuf == 2

\* number of slices the worker sends to the Frame Bridge in one run
MaxSlices == 3

\* number of encodes in one run
MaxWrites == 2

\* number of ports that connect to the shared host in one run
NumPorts == 2

\* number of messages the worker sends to the leader's page in one run
MaxEmitted == 4

\* number of tabs, and number of clock steps in one run
NumTabs == 2

MaxClock == 3

\* deltas (U = first update id, u = final update id) the stream can carry
Deltas ==
  { [U |-> 0, u |-> 1],          \* earliest delta of the stream
    [U |-> 2, u |-> 3],          \* contiguous after 1
    [U |-> 1004, u |-> 1005] }   \* gap of 1000 after last id 3, of 1001
                                 \* after last id 2

\* lastUpdateId values a REST snapshot can carry
SnapshotIds == {0, 1, 2}

(***************************************************************************)
(* State                                                                   *)
(***************************************************************************)
VARIABLES
  \* SequenceManager fields
  currentState, buffer, lastUpdateId, isFetching, fetchRetryCount,
  abortController,
  \* environment of the SequenceManager: AbortSignals, requests, timers
  aborted, inflight, retryTimers, refetchTimers,
  \* OrderbookProcessor
  lastId, bids, asks,
  \* BinanceWebSocket fields
  ws, retryCount, shouldReconnect, reconnectTimeout,
  \* Producer Host
  started,
  \* shared host (SharedWorker): the port map, the ports whose onmessage is
  \* bound, and the SequenceManager of a torn-down session with the timers
  \* and requests it left behind
  portMap, opened, old,
  \* observation: what the last handler did, last status, last publications
  events, status, published,
  \* Frame Bridge (hooks/useRAFBridge.ts): stateRef, messageCountRef,
  \* document.hidden
  latestData, dirty, messageCount, hidden,
  \* store (store/orderbook.ts)
  liveOrderbook, frozenOrderbook, isFrozen, connectionStatus, metrics,
  \* observation of the Frame Bridge: slices sent so far, slices received
  \* since the previous tick, whether a slice arrived / the page's visibility
  \* changed since the last push, and what the last tick saw and did
  sent, arrived, fresh, revealed, lastTick,
  \* leader election (lib/leader-election.ts): the localStorage cell, the
  \* clock, and per tab its leader flag, its intervals, its position in
  \* tryClaimLeadership and its undelivered storage event
  cell, now, leader, heartbeatInterval, checkInterval, pc, storageEvent,
  \* shared memory (lib/binary-protocol.ts): the region, the writer's
  \* position in encode and its slice, the reader (hooks/useRAFBridge.ts,
  \* useSABWorker): readerRef set, lastVersionRef, position in tick/decode,
  \* the version it loaded, the counts it read, its pools
  mem, wpc, wSlice, readerRef, lastVersionRef, rpc, rv, rCounts, bidPool,
  askPool,
  \* observation: the slice each version was encoded from, whether an encode
  \* overlapped the current decode, and the last completed decode
  written, overlap, lastDecode,
  \* leader's page in broadcast mode (hooks/useWorker.ts, useBroadcastMode):
  \* the channel's _isLeader flag, workerRef set, pendingBroadcastRef,
  \* broadcastRafRef set; observation: the messages posted on the
  \* BroadcastChannel in order, the number of messages the worker has sent
  \* to the page, and how many messages of the bus a follower has received
  isLeaderCh, workerRef, pendingBroadcastRef, broadcastRafRef, bus, emitted,
  delivered

smVars == <<currentState, buffer, lastUpdateId, isFetching, fetchRetryCount,
            abortController>>
envVars == <<aborted, inflight, retryTimers, refetchTimers>>
tcVars == <<ws, retryCount, shouldReconnect, reconnectTimeout>>
obsVars == <<events, status, published>>
bookVars == <<bids, asks>>
shVars == <<portMap, opened, old>>
phVars == <<smVars, envVars, lastId, tcVars, started, obsVars, bookVars,
           shVars>>

fbVars == <<latestData, dirty, messageCount, hidden>>
storeVars == <<liveOrderbook, frozenOrderbook, isFrozen, connectionStatus,
               metrics>>
fbObsVars == <<sent, arrived, fresh, revealed, lastTick>>
uiVars == <<fbVars, storeVars, fbObsVars>>

leVars == <<cell, now, leader, heartbeatInterval, checkInterval, pc,
           storageEvent>>

sabVars == <<mem, wpc, wSlice, readerRef, lastVersionRef, rpc, rv, rCounts,
            bidPool, askPool, written, overlap, lastDecode>>

bcVars == <<isLeaderCh, workerRef, pendingBroadcastRef, broadcastRafRef,
           bus, emitted, delivered>>

vars == <<phVars, uiVars, leVars, sabVars, bcVars>>

\* the host's state as one record, so that handlers compose as functions
Host ==
  [ currentState |-> currentState, buffer |-> buffer,
    lastUpdateId |-> lastUpdateId, isFetching |-> isFetching,
    fetchRetryCount |-> fetchRetryCount, abortController |-> abortController,
    aborted |-> aborted, inflight |-> inflight,
    retryTimers |-> retryTimers, refetchTimers |-> refetchTimers,
    lastId |-> lastId,
    ws |-> ws, retryCount |-> retryCount, shouldReconnect |-> shouldReconnect,
    reconnectTimeout |-> reconnectTimeout,
    started |-> started,
    \* what a poll of orderbookProcessor.isDirty gives; only the shared
    \* host polls it
    isDirty |-> TRUE,
    events |-> <<>>, status |-> status,
    published |-> published ]

Apply(r) ==
  /\ currentState' = r.currentState
  /\ buffer' = r.buffer
  /\ lastUpdateId' = r.lastUpdateId
  /\ isFetching' = r.isFetching
  /\ fetchRetryCount' = r.fetchRetryCount
  /\ abortController' = r.abortController
  \* a signal no request or timer refers to any more is forgotten
  /\ aborted' = r.aborted \cap (r.inflight \cup r.retryTimers)
  /\ inflight' = r.inflight
  /\ retryTimers' = r.retryTimers
  /\ refetchTimers' = r.refetchTimers
  /\ lastId' = r.lastId
  /\ ws' = r.ws
  /\ retryCount' = r.retryCount
  /\ shouldReconnect' = r.shouldReconnect
  /\ reconnectTimeout' = r.reconnectTimeout
  /\ started' = r.started
  /\ events' = r.events
  /\ status' = r.status
  /\ published' = r.published
  /\ UNCHANGED <<bookVars, uiVars, leVars, sabVars, bcVars>>

\* a handler of the worker that leaves the ports alone
Commit(r) == Apply(r) /\ UNCHANGED shVars

\* observation: events is the trace of the last handler: the calls it made
\* (with their arguments and the receiver's fields on entry), the callbacks
\* it invoked and the messages it posted, in order
Emit(r, e) == [r EXCEPT !.events = Append(@, e)]

(***************************************************************************)
(* Producer Host helpers (worker/orderbook.worker.ts)                      *)
(***************************************************************************)
postTypedMessage(r, st) ==
  [Emit(r, <<"STATUS_CHANGE", st>>) EXCEPT !.status = st]

mapSequenceState(st) ==
  IF st = "synchronized" THEN "connected" ELSE "syncing"

onStateChange(r, st) == postTypedMessage(r, mapSequenceState(st))

(***************************************************************************)
(* Book Engine (worker/orderbook-processor.ts)                             *)
(***************************************************************************)
applySnapshot(r, snapshot) ==
  [Emit(r, <<"applySnapshot", snapshot>>) EXCEPT !.lastId = snapshot]

applyDelta(r, update) ==
  [Emit(r, <<"applyDelta", update>>) EXCEPT !.lastId = update.u]

\* getSlice().lastUpdateId
getSlice(r) == r.lastId

\* new Map()
EmptyMap == [p \in {} |-> 0]

\* the value of parseFloat: a number, or NaN
Number(n) == [nan |-> FALSE, n |-> n]

NaN == [nan |-> TRUE, n |-> 0]

isNaN(x) == x.nan

\* parseFloat on the strings a depth message carries in this model: the
\* longest decimal prefix is converted, a string with none gives NaN, and
\* "-0" gives -0, which === 0
parseFloat(str) ==
  CASE str = "1" -> Number(1)
    [] str = "2" -> Number(2)
    [] str = "2x" -> Number(2)
    [] str = "0" -> Number(0)
    [] str = "-0" -> Number(0)
    [] str = "-1" -> Number(0 - 1)
    [] OTHER -> NaN

\* Map.set and Map.delete
MapSet(m, k, v) == [x \in DOMAIN m \cup {k} |-> IF x = k THEN v ELSE m[x]]

MapDelete(m, k) == [x \in DOMAIN m \ {k} |-> m[x]]

\* one loop of applySnapshot over the pairs of one side, from the cleared map
RECURSIVE applySnapshotLevels(_, _)
applySnapshotLevels(m, pairs) ==
  IF pairs = <<>> THEN m
  ELSE LET p == parseFloat(Head(pairs)[1])
           qty == parseFloat(Head(pairs)[2])
       IN
       IF isNaN(p) \/ isNaN(qty) THEN applySnapshotLevels(m, Tail(pairs))
       ELSE IF qty.n > 0
            THEN applySnapshotLevels(MapSet(m, p.n, qty.n), Tail(pairs))
            ELSE applySnapshotLevels(m, Tail(pairs))

\* mutant of applyDeltaLevels: a quantity that is not positive removes the
\* level
RECURSIVE applyDeltaLevels_positiveOnly(_, _)
applyDeltaLevels_positiveOnly(m, pairs) ==
  IF pairs = <<>> THEN m
  ELSE LET p == parseFloat(Head(pairs)[1])
           qty == parseFloat(Head(pairs)[2])
       IN
       IF isNaN(p) \/ isNaN(qty)
       THEN applyDeltaLevels_positiveOnly(m, Tail(pairs))
       ELSE IF qty.n <= 0
            THEN applyDeltaLevels_positiveOnly(MapDelete(m, p.n), Tail(pairs))
            ELSE applyDeltaLevels_positiveOnly(MapSet(m, p.n, qty.n),
                                               Tail(pairs))

\* one loop of applyDelta over the pairs of one side
RECURSIVE applyDeltaLevels(_, _)
applyDeltaLevels(m, pairs) ==
  IF pairs = <<>> THEN m
  ELSE LET p == parseFloat(Head(pairs)[1])
           qty == parseFloat(Head(pairs)[2])
       IN
       IF isNaN(p) \/ isNaN(qty) THEN applyDeltaLevels(m, Tail(pairs))
       ELSE IF qty.n = 0
            THEN applyDeltaLevels(MapDelete(m, p.n), Tail(pairs))
            ELSE applyDeltaLevels(MapSet(m, p.n, qty.n), Tail(pairs))

\* Array.from(m.entries()).map(...).sort(...): the levels of a side, highest
\* price first (descending) or lowest price first
RECURSIVE sortedLevels(_, _)
sortedLevels(m, descending) ==
  IF DOMAIN m = {} THEN <<>>
  ELSE LET best == CHOOSE x \in DOMAIN m : \A y \in DOMAIN m :
                     IF descending THEN y <= x ELSE x <= y
       IN << [price |-> best, size |-> m[best]] >>
          \o sortedLevels(MapDelete(m, best), descending)

\* Array.prototype.slice(0, depth)
sliceTo(levels, depth) ==
  SubSeq(levels, 1, IF depth < Len(levels) THEN depth ELSE Len(levels))

\* calculateCumulative: the running sum of the sizes; depthPercent is 0
RECURSIVE calculateCumulative(_, _)
calculateCumulative(levels, cumulative) ==
  IF levels = <<>> THEN <<>>
  ELSE LET c == cumulative + Head(levels).size IN
       << [price |-> Head(levels).price, size |-> Head(levels).size,
           cumulative |-> c, depthPercent |-> 0] >>
       \o calculateCumulative(Tail(levels), c)

\* Math.round((cumulative / maxCumulative) * 10000), in hundredths of a
\* percent; Math.round rounds a half upwards
depthPercentOf(cumulative, maxCumulative) ==
  (2 * cumulative * 10000 + maxCumulative) \div (2 * maxCumulative)

\* OrderbookProcessor.getSlice over the two maps.  midpoint is held in
\* halves (bestBid + bestAsk) and spreadPercent as the fraction
\* spread / midpoint, <<2 * spread, bestBid + bestAsk>>
getSliceLevels(bs, as, id, depth) ==
  LET bidLevels == calculateCumulative(sliceTo(sortedLevels(bs, TRUE), depth), 0)
      askLevels == calculateCumulative(sliceTo(sortedLevels(as, FALSE), depth), 0)
      lastOf(levels) ==
        IF levels = <<>> THEN 0 ELSE levels[Len(levels)].cumulative
      maxCumulative ==
        IF lastOf(bidLevels) > lastOf(askLevels)
        THEN lastOf(bidLevels) ELSE lastOf(askLevels)
      percents(levels) ==
        IF maxCumulative > 0
        THEN [k \in DOMAIN levels |->
                [levels[k] EXCEPT
                   !.depthPercent = depthPercentOf(levels[k].cumulative,
                                                   maxCumulative)]]
        ELSE levels
      bestBid == IF bidLevels = <<>> THEN 0 ELSE bidLevels[1].price
      bestAsk == IF askLevels = <<>> THEN 0 ELSE askLevels[1].price
  IN [ bids |-> percents(bidLevels),
       asks |-> percents(askLevels),
       spread |-> bestAsk - bestBid,
       midpoint |-> bestBid + bestAsk,
       spreadPercent |-> IF bestBid + bestAsk > 0
                         THEN <<2 * (bestAsk - bestBid), bestBid + bestAsk>>
                         ELSE <<0, 1>>,
       lastUpdateId |-> id ]

\* started: orderbookProcessor is not null
postSlice(r) ==
  IF ~r.started \/ ~r.isDirty THEN r
  ELSE [Emit(r, <<"ORDERBOOK_UPDATE", getSlice(r)>>)
          EXCEPT !.published = IF @ = <<>> THEN <<getSlice(r)>>
                               ELSE <<@[Len(@)], getSlice(r)>>]

RECURSIVE applyAll(_, _)
applyAll(r, updates) ==
  IF updates = <<>> THEN r
  ELSE applyAll(applyDelta(r, Head(updates)), Tail(updates))

handleSynchronized(r, snapshot, bufferedUpdates) ==
  IF ~r.started THEN r
  ELSE postSlice(applyAll(applySnapshot(r, snapshot), bufferedUpdates))

handleUpdate(r, update) == IF ~r.started THEN r ELSE applyDelta(r, update)

onSequenceGap(r) == Emit(r, <<"onSequenceGap">>)

(***************************************************************************)
(* Sequence Manager (worker/sequence-manager.ts)                           *)
(***************************************************************************)
setState(r, st) ==
  IF r.currentState # st
  THEN onStateChange([r EXCEPT !.currentState = st], st)
  ELSE r

\* abortController?.abort()
abortCurrent(r) ==
  IF r.abortController # 0
  THEN [r EXCEPT !.aborted = @ \cup {r.abortController}]
  ELSE r

\* mutant of reset: the in-flight request is not aborted
reset_noAbort(r) ==
  [Emit(r, <<"reset">>) EXCEPT
     !.abortController = 0,
     !.buffer = <<>>,
     !.currentState = "buffering",
     !.lastUpdateId = 0,
     !.isFetching = FALSE,
     !.fetchRetryCount = 0,
     !.published = <<>>]

reset(r) ==
  [abortCurrent(Emit(r, <<"reset">>)) EXCEPT
     !.abortController = 0,
     !.buffer = <<>>,
     !.currentState = "buffering",
     !.lastUpdateId = 0,
     !.isFetching = FALSE,
     !.fetchRetryCount = 0,
     \* observation only: a resync starts a new run of publications
     !.published = <<>>]

\* the signal of a new AbortController: the least name no outstanding
\* request or retry timer holds
newSignal(r) ==
  CHOOSE i \in 1..(MaxFetches + 1) :
    /\ i \notin r.inflight \cup r.retryTimers
    /\ \A j \in 1..(i - 1) : j \in r.inflight \cup r.retryTimers

\* up to the first await: the request of the new controller is in flight
doFetch(r) ==
  LET i == newSignal(r) IN
  [abortCurrent(r) EXCEPT
     !.abortController = i,
     !.aborted = @ \ {i},
     !.inflight = @ \cup {i}]

fetchSnapshot(r) ==
  IF r.isFetching THEN r
  ELSE doFetch(setState([r EXCEPT !.isFetching = TRUE,
                                  !.fetchRetryCount = 0], "syncing"))

\* mutant of validateSequence: a gap of exactly GAP_TOLERANCE is rejected
validateSequence_strict(r, update) ==
  IF r.lastUpdateId = 0 THEN TRUE
  ELSE LET expectedU == r.lastUpdateId + 1 IN
       IF update.U <= expectedU THEN TRUE
       ELSE LET gap == update.U - expectedU IN
            gap < GAP_TOLERANCE

validateSequence(r, update) ==
  IF r.lastUpdateId = 0 THEN TRUE
  ELSE LET expectedU == r.lastUpdateId + 1 IN
       IF update.U <= expectedU THEN TRUE
       ELSE LET gap == update.U - expectedU IN
            gap <= GAP_TOLERANCE

\* mutant of validUpdates: a delta ending at the snapshot's id is kept
RECURSIVE validUpdates_inclusive(_, _)
validUpdates_inclusive(buf, snapshot) ==
  IF buf = <<>> THEN <<>>
  ELSE IF Head(buf).u >= snapshot
       THEN <<Head(buf)>> \o validUpdates_inclusive(Tail(buf), snapshot)
       ELSE validUpdates_inclusive(Tail(buf), snapshot)

\* mutant of validUpdates: the delta that ends right after the snapshot's id
\* is dropped as well
RECURSIVE validUpdates_skipNext(_, _)
validUpdates_skipNext(buf, snapshot) ==
  IF buf = <<>> THEN <<>>
  ELSE IF Head(buf).u > snapshot + 1
       THEN <<Head(buf)>> \o validUpdates_skipNext(Tail(buf), snapshot)
       ELSE validUpdates_skipNext(Tail(buf), snapshot)

\* buffer.filter(update => update.u > snapshot.lastUpdateId)
RECURSIVE validUpdates(_, _)
validUpdates(buf, snapshot) ==
  IF buf = <<>> THEN <<>>
  ELSE IF Head(buf).u > snapshot
       THEN <<Head(buf)>> \o validUpdates(Tail(buf), snapshot)
       ELSE validUpdates(Tail(buf), snapshot)

processSnapshot(r0, snapshot) ==
  LET r == Emit(r0, <<"processSnapshot", snapshot, r0.buffer,
                      r0.fetchRetryCount>>) IN
  IF /\ Len(r.buffer) > 0
     /\ snapshot < r.buffer[1].U
     /\ r.fetchRetryCount < MAX_SNAPSHOT_RETRIES
  THEN [r EXCEPT !.fetchRetryCount = @ + 1, !.refetchTimers = @ + 1]
  ELSE LET valid == validUpdates(r.buffer, snapshot) IN
       handleSynchronized(
         setState([r EXCEPT !.lastUpdateId = snapshot,
                            !.buffer = <<>>,
                            !.isFetching = FALSE], "synchronized"),
         snapshot, valid)

\* the catch block of doFetch for the request of signal i
catchBlock(r, i) ==
  IF i \in r.aborted THEN r
  ELSE LET r1 == [r EXCEPT !.fetchRetryCount = @ + 1] IN
       IF r1.fetchRetryCount < MAX_SNAPSHOT_RETRIES
       THEN [r1 EXCEPT !.retryTimers = @ \cup {i}]
       ELSE [r1 EXCEPT !.isFetching = FALSE]

\* the callback of the 2 s retry timer set by the catch block for signal i
retryCallback(r, i) == IF i \notin r.aborted THEN doFetch(r) ELSE r

\* mutant of handleMessage: the rejected delta is not reprocessed
handleMessage_noReprocess(r0, update) ==
  LET r == Emit(r0, <<"handleMessage", update, r0.currentState,
                      r0.lastUpdateId>>)
      push == [r EXCEPT !.buffer = Append(@, update)]
  IN
  CASE r.currentState = "buffering" ->
         IF ~push.isFetching THEN fetchSnapshot(push) ELSE push
    [] r.currentState = "syncing" -> push
    [] r.currentState = "synchronized" ->
         IF validateSequence(r, update)
         THEN handleUpdate([r EXCEPT !.lastUpdateId = update.u], update)
         ELSE reset(onSequenceGap(r))
    [] r.currentState = "resyncing" -> push

RECURSIVE handleMessage(_, _)
handleMessage(r0, update) ==
  LET r == Emit(r0, <<"handleMessage", update, r0.currentState,
                      r0.lastUpdateId>>)
      push == [r EXCEPT !.buffer = Append(@, update)]
  IN
  CASE r.currentState = "buffering" ->
         IF ~push.isFetching THEN fetchSnapshot(push) ELSE push
    [] r.currentState = "syncing" -> push
    [] r.currentState = "synchronized" ->
         IF validateSequence(r, update)
         THEN handleUpdate([r EXCEPT !.lastUpdateId = update.u], update)
         ELSE handleMessage(reset(onSequenceGap(r)), update)
    [] r.currentState = "resyncing" -> push

(***************************************************************************)
(* Transport Client (worker/binance-ws.ts) with the host's callbacks       *)
(***************************************************************************)
onError(r) == postTypedMessage(r, "error")

onReconnecting(r) == reset(postTypedMessage(r, "reconnecting"))

handleReconnect(r) ==
  IF ~r.shouldReconnect \/ r.retryCount >= MAX_RETRIES THEN r
  ELSE [onReconnecting([r EXCEPT !.retryCount = @ + 1])
          EXCEPT !.reconnectTimeout = TRUE]

\* throws: whether the WebSocket constructor throws
wsConnect(r, throws) ==
  IF r.ws = "OPEN" THEN r
  ELSE LET r1 == [r EXCEPT !.shouldReconnect = TRUE] IN
       IF throws THEN handleReconnect(r1)
       ELSE [r1 EXCEPT !.ws = "CONNECTING"]

\* the fields of a new SequenceManager, with no request and no timer
FreshManager ==
  [ currentState |-> "buffering", buffer |-> <<>>, lastUpdateId |-> 0,
    isFetching |-> FALSE, fetchRetryCount |-> 0, abortController |-> 0,
    aborted |-> {}, inflight |-> {}, retryTimers |-> {},
    refetchTimers |-> 0 ]

\* the SequenceManager of a host record, and a host record around another
\* SequenceManager
ManagerOf(r) == [f \in DOMAIN FreshManager |-> r[f]]

WithManager(r, m) ==
  [f \in DOMAIN r |-> IF f \in DOMAIN m THEN m[f] ELSE r[f]]

\* disconnect(): the intervals are cleared, the socket is closed with its
\* reconnect timer, the manager is reset, the three objects are dropped (a
\* later connect() builds new ones) and disconnected is broadcast
disconnect(r) ==
  IF ~r.started THEN postTypedMessage(r, "disconnected")
  ELSE postTypedMessage(
         [WithManager(reset(r), FreshManager) EXCEPT
            !.started = FALSE,
            !.ws = "NONE",
            !.retryCount = 0,
            !.shouldReconnect = TRUE,
            !.reconnectTimeout = FALSE,
            !.lastId = 0],
         "disconnected")

\* connect() of the host: disconnect(), the three new objects, connecting
connect(r, throws) ==
  wsConnect(postTypedMessage([disconnect(r) EXCEPT !.started = TRUE],
                             "connecting"), throws)

(***************************************************************************)
(* Shared host (SharedWorker): disconnect and the ports                    *)
(***************************************************************************)
\* broadcastTabCount() over the port map pm
broadcastTabCount(r, pm) == Emit(r, <<"METRICS", Cardinality(DOMAIN pm)>>)

\* port.postMessage(message) to the port p alone
postTo(r, p, message) == Emit(r, <<"SEND", p, message>>)

sendCurrentState(r, p) ==
  LET r1 == IF r.started
            THEN postTo(r, p, <<"STATUS_CHANGE",
                                mapSequenceState(r.currentState)>>)
            ELSE r
  IN IF r.started /\ r.currentState = "synchronized"
     THEN postTo(r1, p, <<"ORDERBOOK_UPDATE", getSlice(r1)>>)
     ELSE r1

\* removePort and the tail of pruneStale over the port map pm left
dropPorts(r, pm) ==
  LET r1 == broadcastTabCount(r, pm) IN
  IF DOMAIN pm = {} THEN disconnect(r1) ELSE r1

\* mutant of broadcastToAll: hidden ports are not skipped
broadcastToAll_noSkip(pm, p, message) == p \in DOMAIN pm

\* broadcastToAll(message) posts to port p of the port map pm
broadcastToAll(pm, p, message) ==
  /\ p \in DOMAIN pm
  /\ ~(message[1] = "ORDERBOOK_UPDATE" /\ pm[p].hidden)

\* the tabs of one browser
Tabs == 1..NumTabs

\* localStorage.getItem(STORAGE_KEY) === null
NoRecord == [tabId |-> 0, timestamp |-> 0]

\* the clock advances in steps of half the stale threshold
ClockStep == STALE_THRESHOLD \div 2

\* Date.now()
DateNow == now * ClockStep

\* level slots of 32 bytes the region holds after its header; bid i is
\* written to slot i, ask i to slot MAX_DEPTH + i (BIDS_OFFSET, ASKS_OFFSET)
LevelSlots == (BUFFER_SIZE - HEADER_SIZE) \div LEVEL_STRIDE

\* a price level all of whose four floats derive from p
Level(p) == [price |-> p, size |-> p + 1, cumulative |-> p + 2,
             depthPercent |-> p + 3]

\* the zero-filled level of a fresh region or pool
NoLevel == [price |-> 0, size |-> 0, cumulative |-> 0, depthPercent |-> 0]

\* the five floats of the header: spread, spreadPercent, midpoint,
\* timestamp, lastUpdateId
Header(n) == [spread |-> n, spreadPercent |-> n, midpoint |-> n,
            timestamp |-> n, lastUpdateId |-> n]

NoHead == Header(0)

\* the slices getSlice() hands to encode: one level a side, bids only, and
\* a book deeper than MAX_DEPTH (SET_DEPTH 16)
SabSlices ==
  { [bids |-> <<Level(10)>>, asks |-> <<Level(20)>>, head |-> Header(1)],
    [bids |-> <<Level(30), Level(40)>>, asks |-> <<>>, head |-> Header(2)],
    [bids |-> [k \in 1..(MAX_DEPTH + 1) |-> Level(100 + k)],
     asks |-> <<Level(50)>>, head |-> Header(3)] }

\* no decode has completed
NoDecode == [done |-> FALSE]

\* null, where a slice is expected
NoSlice == <<>>

\* the n-th slice the worker sends
Slice(n) == <<n>>

\* no frame tick was the last handler of the Frame Bridge
NoTick == [ran |-> FALSE]

\* null, where a message of the worker is expected
NoMsg == <<>>

(***************************************************************************)
(* Actions                                                                 *)
(***************************************************************************)
Init ==
  /\ currentState = "buffering"
  /\ buffer = <<>>
  /\ lastUpdateId = 0
  /\ isFetching = FALSE
  /\ fetchRetryCount = 0
  /\ abortController = 0
  /\ aborted = {}
  /\ inflight = {}
  /\ retryTimers = {}
  /\ refetchTimers = 0
  /\ lastId = 0
  /\ bids = EmptyMap
  /\ asks = EmptyMap
  /\ ws = "NONE"
  /\ retryCount = 0
  /\ shouldReconnect = TRUE
  /\ reconnectTimeout = FALSE
  /\ started = FALSE
  /\ portMap = EmptyMap
  /\ opened = {}
  /\ old = FreshManager
  /\ events = <<>>
  /\ status = "none"
  /\ published = <<>>
  /\ latestData = NoSlice
  /\ dirty = FALSE
  /\ messageCount = 0
  /\ hidden = FALSE
  /\ liveOrderbook = NoSlice
  /\ frozenOrderbook = NoSlice
  /\ isFrozen = FALSE
  /\ connectionStatus = "disconnected"
  /\ metrics = 0
  /\ sent = 0
  /\ arrived = <<>>
  /\ fresh = FALSE
  /\ revealed = FALSE
  /\ lastTick = NoTick
  /\ cell = NoRecord
  /\ now = 0
  /\ leader = [t \in Tabs |-> FALSE]
  /\ heartbeatInterval = [t \in Tabs |-> FALSE]
  /\ checkInterval = [t \in Tabs |-> "new"]
  /\ pc = [t \in Tabs |-> "idle"]
  /\ storageEvent = [t \in Tabs |-> FALSE]
  /\ mem = [version |-> 0, bidCount |-> 0, askCount |-> 0, head |-> NoHead,
            levels |-> [k \in 0..(LevelSlots - 1) |-> NoLevel]]
  /\ wpc = "idle"
  /\ wSlice = NoSlice
  /\ readerRef = FALSE
  /\ lastVersionRef = 0
  /\ rpc = "idle"
  /\ rv = 0
  /\ rCounts = <<0, 0>>
  /\ bidPool = [k \in 1..MAX_DEPTH |-> NoLevel]
  /\ askPool = [k \in 1..MAX_DEPTH |-> NoLevel]
  /\ written = <<>>
  /\ overlap = FALSE
  /\ lastDecode = NoDecode
  /\ isLeaderCh = FALSE
  /\ workerRef = FALSE
  /\ pendingBroadcastRef = NoMsg
  /\ broadcastRafRef = FALSE
  /\ bus = <<>>
  /\ emitted = 0
  /\ delivered = 0

\* self.onmessage, CONNECT (sent once in this model); Throws: whether the
\* WebSocket constructor may throw
ConnectWith(Throws) ==
  /\ ~started
  /\ \E throws \in Throws : Commit(connect(Host, throws))

\* ws.onopen
WsOpen ==
  /\ ws = "CONNECTING"
  /\ Commit([Host EXCEPT !.ws = "OPEN", !.retryCount = 0])

\* a handler that would start a request is explored while requests remain
MayFetch(r) ==
  Cardinality(r.inflight) + Cardinality(r.retryTimers) + r.refetchTimers
    <= MaxFetches

\* ws.onmessage with a depth update out of D
WsMessageOf(D) ==
  /\ ws = "OPEN"
  /\ Len(buffer) < MaxBuf
  /\ \E d \in D :
       /\ MayFetch(handleMessage(Host, d))
       /\ Commit(handleMessage(Host, d))

\* ws.onerror: the close event of the socket is still to come
WsError ==
  /\ ws \in {"CONNECTING", "OPEN"}
  /\ Commit(onError([Host EXCEPT !.ws = "FAILED"]))

\* ws.onclose of a socket in one of the states From
WsCloseFrom(From) ==
  /\ ws \in From
  /\ Commit(handleReconnect([Host EXCEPT !.ws = "CLOSED"]))

\* the reconnect timer fires
ReconnectTimerWith(Throws) ==
  /\ reconnectTimeout
  /\ \E throws \in Throws :
       Commit(wsConnect([Host EXCEPT !.reconnectTimeout = FALSE], throws))

\* the request of signal i resolves with a valid snapshot with an id of Ids
FetchOkOf(Ids) ==
  \E i \in inflight \ aborted : \E s \in Ids :
    Commit(processSnapshot([Host EXCEPT !.inflight = @ \ {i}], s))

\* the request of signal i fails: network error, non-2xx, invalid body
FetchFail ==
  \E i \in inflight \ aborted :
    Commit(catchBlock([Host EXCEPT !.inflight = @ \ {i}], i))

\* the 10 s timer of the request of signal i fires: abortController?.abort()
\* (a signal that is not aborted is the current controller's)
FetchTimeout ==
  \E i \in inflight \ aborted :
    Commit(abortCurrent(Host))

\* the request of an aborted signal rejects with an AbortError
FetchAborted ==
  \E i \in inflight \cap aborted :
    Commit(catchBlock([Host EXCEPT !.inflight = @ \ {i}], i))

\* the 2 s retry timer set by the catch block for signal i
RetryTimer ==
  \E i \in retryTimers :
    LET r == retryCallback([Host EXCEPT !.retryTimers = @ \ {i}], i) IN
    /\ MayFetch(r)
    /\ Commit(r)

\* the 500 ms refetch timer set by processSnapshot
RefetchTimer ==
  /\ refetchTimers > 0
  /\ LET r == doFetch([Host EXCEPT !.refetchTimers = @ - 1]) IN
     /\ MayFetch(r)
     /\ Commit(r)

\* the 100 ms interval of the host
UpdateInterval ==
  /\ started
  /\ Commit(IF currentState = "synchronized" THEN postSlice(Host) ELSE Host)

(***************************************************************************)
(* Spec: the Sequence Manager and the Book Engine under every delta of     *)
(* Deltas and every snapshot of SnapshotIds; every socket opens, and an    *)
(* open socket may close at any time (reconnect, reset, resync).           *)
(***************************************************************************)
Connect == ConnectWith({FALSE})

WsMessage == WsMessageOf(Deltas)

WsClose == WsCloseFrom({"OPEN"})

ReconnectTimer == ReconnectTimerWith({FALSE})

FetchOk == FetchOkOf(SnapshotIds)

Next ==
  \/ Connect
  \/ WsOpen
  \/ WsMessage
  \/ WsClose
  \/ ReconnectTimer
  \/ FetchOk
  \/ FetchFail
  \/ FetchTimeout
  \/ FetchAborted
  \/ RetryTimer
  \/ RefetchTimer
  \/ UpdateInterval

Spec == Init /\ [][Next]_vars

(***************************************************************************)
(* Properties of the Sequence Manager and the Book Engine (Spec)           *)
(***************************************************************************)
HasEvent(tag) == \E k \in DOMAIN events : events[k][1] = tag

EventsOf(tag) == SelectSeq(events, LAMBDA e : e[1] = tag)

\* the last handler was entered through a call of tag
Called(tag) == events # <<>> /\ events[1][1] = tag

\* the last handler was handleMessage(callDelta) on a synchronized manager
\* holding last_update_id = callLast
SyncCall == Called("handleMessage") /\ events[1][3] = "synchronized"

callDelta == events[1][2]

callLast == events[1][4]

Tolerated ==
  \/ callDelta.U <= callLast + 1
  \/ callDelta.U - (callLast + 1) <= GAP_TOLERANCE

Accepted ==
  /\ lastUpdateId = callDelta.u
  /\ EventsOf("applyDelta") = << <<"applyDelta", callDelta>> >>
  /\ ~HasEvent("onSequenceGap")

Rejected == HasEvent("onSequenceGap") /\ ~HasEvent("applyDelta")

\* C1 as stated: on a synchronized manager a delta is accepted iff
\* U <= last_update_id + 1 or the gap is at most 1000, and rejected iff the
\* gap exceeds 1000, for every value of last_update_id
C1_GapPolicyEveryId ==
  SyncCall => (Accepted <=> Tolerated) /\ (Rejected <=> ~Tolerated)

\* C1 amended: the gap policy decides acceptance for every last_update_id
\* other than 0; with last_update_id = 0 every delta is accepted
C1_GapPolicy ==
  SyncCall =>
    IF callLast # 0
    THEN (Accepted <=> Tolerated) /\ (Rejected <=> ~Tolerated)
    ELSE Accepted

\* a delta with a gap of exactly 1000 after last_update_id = 3 was accepted
C1_Witness ==
  /\ SyncCall
  /\ callLast = 3
  /\ callDelta = [U |-> 1004, u |-> 1005]
  /\ Accepted

\* the last handler was processSnapshot(snapId) with buffer snapBuf
SnapCall == Called("processSnapshot")

snapId == events[1][2]

snapBuf == events[1][3]

SnapAccepted == SnapCall /\ HasEvent("applySnapshot")

Replayed ==
  [k \in 1..Len(EventsOf("applyDelta")) |-> EventsOf("applyDelta")[k][2]]

\* C2: when a snapshot is accepted the Book Engine gets applySnapshot and
\* then exactly the buffered deltas with u > snapshot id, in arrival order;
\* the other buffered deltas are dropped and the buffer is left empty
C2_Reconciliation ==
  SnapAccepted =>
    /\ EventsOf("applySnapshot") = << <<"applySnapshot", snapId>> >>
    /\ Replayed = SelectSeq(snapBuf, LAMBDA d : d.u > snapId)
    /\ \A j, k \in DOMAIN events :
         events[j][1] = "applySnapshot" /\ events[k][1] = "applyDelta"
           => j < k
    /\ buffer = <<>>

\* snapshot 1 over the buffer (0,1), (2,3): one delta dropped, one replayed
C2_Witness ==
  /\ SnapAccepted
  /\ snapId = 1
  /\ snapBuf = << [U |-> 0, u |-> 1], [U |-> 2, u |-> 3] >>
  /\ Replayed = << [U |-> 2, u |-> 3] >>

\* C3: a snapshot older than the first buffered delta is never applied and
\* never synchronizes the manager
C3_TooOldDiscarded ==
  (SnapCall /\ snapBuf # <<>> /\ snapId < snapBuf[1].U) =>
    /\ ~HasEvent("applySnapshot")
    /\ ~HasEvent("STATUS_CHANGE")

\* the last handler was handleMessage on a synchronized manager with a delta
\* whose gap exceeds the tolerance
GapCall == SyncCall /\ callDelta.U - (callLast + 1) > GAP_TOLERANCE

Resynced ==
  /\ events = << events[1],
                 <<"onSequenceGap">>,
                 <<"reset">>,
                 <<"handleMessage", callDelta, "buffering", 0>>,
                 <<"STATUS_CHANGE", "syncing">> >>
  /\ buffer = <<callDelta>>
  /\ lastUpdateId = 0
  /\ currentState = "syncing"
  /\ isFetching
  /\ abortController \in inflight \ aborted

\* C4 as stated: every delta whose gap exceeds 1000 resyncs the manager
C4_LargeGapEveryId == GapCall => Resynced

\* C4 amended: with last_update_id other than 0, a delta whose gap exceeds
\* 1000 invokes on_sequence_gap once, is not forwarded, resets the manager
\* and is reprocessed as a buffering event: the buffer holds exactly that
\* delta and a new snapshot request is in flight (state syncing)
C4_LargeGapResync == (GapCall /\ callLast # 0) => Resynced

\* (1004,1005) after last_update_id = 2: gap 1001
C4_Witness ==
  /\ GapCall
  /\ callLast = 2
  /\ callDelta.U - (callLast + 1) = GAP_TOLERANCE + 1
  /\ Resynced

C5_Step ==
  /\ (events' # <<>> /\ events'[Len(events')][1] = "reset") =>
        /\ currentState' = "buffering"
        /\ buffer' = <<>>
        /\ lastUpdateId' = 0
  /\ (\E k \in DOMAIN events' : events'[k][1] = "reset") =>
        \A i \in inflight : i \in inflight' => i \in aborted'
  /\ \A i \in inflight \cap aborted :
        i \notin inflight' =>
          /\ UNCHANGED <<smVars, lastId, retryTimers, refetchTimers,
                         status, published>>
          /\ inflight' = inflight \ {i}
          /\ events' = <<>>

\* C5: a handler that ends in reset() leaves the manager buffering with an
\* empty buffer and last_update_id = 0; every request in flight when reset()
\* runs is aborted; when the response of an aborted request arrives, the
\* manager, the Book Engine and the timers stay as they are, no request is
\* issued and nothing is posted
C5_Reset == [][C5_Step]_vars

\* reset() has just run while a request was in flight
C5_Witness ==
  /\ events # <<>>
  /\ events[Len(events)][1] = "reset"
  /\ inflight # {}
  /\ inflight \subseteq aborted

\* C6: between two resets, the last_update_id of successively published
\* slices never decreases
C6_MonotonicPublish ==
  Len(published) = 2 => published[1] <= published[2]

\* the step ends the request of the manager's current controller by a failure
\* (error, non-2xx, invalid body, or the rejection that follows the 10 s
\* timeout); no reset() has run since the request was issued, as reset()
\* clears the controller
FetchFailed(i) ==
  /\ i \in inflight
  /\ i \notin inflight'
  /\ i = abortController
  /\ ~(events' # <<>> /\ events'[1][1] = "processSnapshot")

\* a retry is scheduled: the 2 s timer of the failed request is pending
RetryScheduled(i) == i \in retryTimers' /\ i \notin aborted'

C12_Step ==
  \A i \in inflight :
    (FetchFailed(i) /\ fetchRetryCount + 1 < MAX_SNAPSHOT_RETRIES)
      => RetryScheduled(i)

\* C12: a snapshot fetch that fails, whatever the cause, while fewer than 3
\* attempts have failed (this one counted) and no reset() has occurred, is
\* followed by another attempt: its retry is scheduled
C12_FailedFetchRetried == [][C12_Step]_vars

\* the fetch has been abandoned: the manager is syncing, fetches nothing and
\* has counted MAX_SNAPSHOT_RETRIES failures
Abandoned ==
  /\ currentState = "syncing"
  /\ ~isFetching
  /\ fetchRetryCount = MAX_SNAPSHOT_RETRIES

C13_Step ==
  (Abandoned /\ events' # <<>> /\ events'[1][1] = "handleMessage") =>
    /\ isFetching'
    /\ abortController' \in inflight' \ aborted'

\* C13: after the fetch was abandoned on the third failure, the next inbound
\* delta starts a new snapshot request
C13_RefetchAfterAbandon == [][C13_Step]_vars

(***************************************************************************)
(* SpecTC: the Transport Client's reconnect ladder: connection attempts    *)
(* may fail (constructor throws, error event, close without error event),  *)
(* with one delta and one snapshot id on the Sequence Manager's side.      *)
(***************************************************************************)
TCDeltas == { [U |-> 2, u |-> 3] }

TCSnapshotIds == {1}

TCConnect == ConnectWith(BOOLEAN)

TCMessage == WsMessageOf(TCDeltas)

TCClose == WsCloseFrom({"CONNECTING", "OPEN", "FAILED"})

TCReconnectTimer == ReconnectTimerWith(BOOLEAN)

TCFetchOk == FetchOkOf(TCSnapshotIds)

NextTC ==
  \/ TCConnect
  \/ WsOpen
  \/ TCMessage
  \/ WsError
  \/ TCClose
  \/ TCReconnectTimer
  \/ TCFetchOk
  \/ FetchFail
  \/ FetchTimeout
  \/ FetchAborted
  \/ RetryTimer
  \/ RefetchTimer
  \/ UpdateInterval

SpecTC == Init /\ [][NextTC]_vars

(***************************************************************************)
(* Properties of the reconnect ladder (SpecTC)                             *)
(***************************************************************************)
\* the fifth reconnect attempt has failed: no socket, no timer pending
Exhausted ==
  /\ retryCount = MAX_RETRIES
  /\ ~reconnectTimeout
  /\ ws \in {"NONE", "CLOSED"}

\* C10: once the fifth consecutive reconnect attempt has failed, no reconnect
\* is scheduled and the last status the host emitted is error, whether or
\* not a socket error event preceded the final close
C10_TerminalError == Exhausted => status = "error"

\* C11: a handler that posts the status error finds the reconnect ladder
\* exhausted; while attempts remain a transport failure posts reconnecting
\* and never error
C11_ErrorOnlyWhenExhausted ==
  (\E k \in DOMAIN events : events[k] = <<"STATUS_CHANGE", "error">>)
    => retryCount >= MAX_RETRIES

\* the changes of state the state machine allows a handler: one edge of
\* buffering -> syncing -> synchronized -> resyncing -> (buffering ->)
\* syncing, or, in a handler that calls reset(), the return to buffering
\* and from there the edge to syncing
StateEdges ==
  { <<"buffering", "syncing">>, <<"syncing", "synchronized">>,
    <<"synchronized", "resyncing">>, <<"resyncing", "buffering">>,
    <<"resyncing", "syncing">> }

C29_Step ==
  currentState' # currentState =>
    \/ <<currentState, currentState'>> \in StateEdges
    \/ /\ \E k \in DOMAIN events' : events'[k][1] = "reset"
       /\ currentState' \in {"buffering", "syncing"}

\* C29: the state of the Sequence Manager changes only along the edges of
\* the state machine and by reset()
C29_StateMachine == [][C29_Step]_vars

\* a handler issues a snapshot request
RequestIssued == inflight' \ inflight # {}

\* C30: a sync session issues at most 3 snapshot requests, whatever caused
\* the refetches.  fetchRetryCount is 0 at the first request of a session
\* and is raised once for every request of the session that failed or
\* brought a snapshot that was too old, so the request issued with
\* fetchRetryCount = 3 is the fourth
C30_Step == RequestIssued => fetchRetryCount' < MAX_SNAPSHOT_RETRIES

C30_AtMostThreeRequests == [][C30_Step]_vars

\* C36: while the Sequence Manager is synchronized, the id it validates the
\* next delta against is the id of the Book Engine (the final update id of
\* the last delta applied, or the snapshot id)
C36_IdsAgree == currentState = "synchronized" => lastUpdateId = lastId

\* C37: the manager is in buffering only at the start and after reset();
\* from there no request is issued and the state is not left unless the
\* handler is handleMessage for an inbound delta, so no timer of the earlier
\* session starts a fetch
C37_Step ==
  currentState = "buffering" /\ (RequestIssued \/ currentState' # "buffering")
    => \E k \in DOMAIN events' : events'[k][1] = "handleMessage"

C37_NoFetchAfterReset == [][C37_Step]_vars

\* a snapshot answer is still due: a request is in flight or a timer that
\* issues one is armed
FetchPending ==
  \/ inflight \ aborted # {}
  \/ retryTimers \ aborted # {}
  \/ refetchTimers > 0

\* C34: the delta buffer is bounded for every stream and every outcome of
\* the fetches.  Only processSnapshot and reset() empty the buffer, so a
\* bounded buffer takes a delta only while a snapshot answer is still due
C34_Step == Len(buffer') > Len(buffer) => FetchPending'

C34_BufferBounded == [][C34_Step]_vars

(***************************************************************************)
(* SpecRC: the reconciliation scenario.  The stream carries the deltas     *)
(* (100,102), (103,105) and (106,108), the snapshot has lastUpdateId 104,  *)
(* every request succeeds.                                                 *)
(***************************************************************************)
RCStream ==
  << [U |-> 100, u |-> 102], [U |-> 103, u |-> 105], [U |-> 106, u |-> 108] >>

RCSnapshotIds == {104}

\* ws.onmessage with a delta of the stream
RCMessage ==
  /\ ws = "OPEN"
  /\ Len(buffer) < Len(RCStream)
  /\ \E k \in DOMAIN RCStream :
       /\ MayFetch(handleMessage(Host, RCStream[k]))
       /\ Commit(handleMessage(Host, RCStream[k]))

RCFetchOk == FetchOkOf(RCSnapshotIds)

NextRC ==
  \/ Connect
  \/ WsOpen
  \/ RCMessage
  \/ RCFetchOk
  \/ UpdateInterval

SpecRC == Init /\ [][NextRC]_vars

\* the last handler was processSnapshot with the snapshot of the scenario
\* over the buffer D1, D2, D3
RCScenario ==
  /\ Called("processSnapshot")
  /\ events[1][2] = 104
  /\ events[1][3] = RCStream

\* the deltas the last handler applied to the Book Engine, in order
AppliedDeltas ==
  LET sel == EventsOf("applyDelta") IN [k \in DOMAIN sel |-> sel[k][2]]

TDDeltas == { [U |-> 2, u |-> 3] }

TDSnapshotIds == {0, 2}

\* what the session a handler tears down leaves behind: the 500 ms refetch
\* timers of its manager, which reset() does not clear
LeftBehind ==
  old' = IF started /\ refetchTimers > 0
         THEN [FreshManager EXCEPT !.refetchTimers = refetchTimers]
         ELSE old

\* self.onmessage, CONNECT
HostConnect ==
  /\ Apply(connect(Emit(Host, <<"CONNECT">>), FALSE))
  /\ LeftBehind
  /\ UNCHANGED <<portMap, opened>>

\* self.onmessage, DISCONNECT
HostDisconnect ==
  /\ Apply(disconnect(Emit(Host, <<"DISCONNECT">>)))
  /\ LeftBehind
  /\ UNCHANGED <<portMap, opened>>

TDMessage == WsMessageOf(TDDeltas)

TDFetchOk == FetchOkOf(TDSnapshotIds)

\* the host around the manager of the torn-down session: its callbacks are
\* the functions of the module, which reach the current orderbookProcessor
OldHost ==
  [WithManager(Host, old) EXCEPT !.events = << <<"tornDown">> >>]

CommitOld(r) ==
  /\ Apply(WithManager(r, ManagerOf(Host)))
  /\ old' = [ManagerOf(r) EXCEPT
               !.aborted = @ \cap (r.inflight \cup r.retryTimers)]
  /\ UNCHANGED <<portMap, opened>>

\* a refetch timer of the torn-down manager fires: doFetch()
OldRefetchTimer ==
  /\ old.refetchTimers > 0
  /\ LET r == doFetch([OldHost EXCEPT !.refetchTimers = @ - 1]) IN
     /\ MayFetch(r)
     /\ CommitOld(r)

\* a request of the torn-down manager resolves with a snapshot
OldFetchOk ==
  \E i \in old.inflight \ old.aborted : \E sn \in TDSnapshotIds :
    CommitOld(processSnapshot([OldHost EXCEPT !.inflight = @ \ {i}], sn))

NextTD ==
  \/ HostConnect
  \/ HostDisconnect
  \/ WsOpen
  \/ TDMessage
  \/ TDFetchOk
  \/ RefetchTimer
  \/ UpdateInterval
  \/ OldRefetchTimer
  \/ OldFetchOk

SpecTD == Init /\ [][NextTD]_vars

(***************************************************************************)
(* Properties of the teardown (SpecTD)                                     *)
(***************************************************************************)
\* C14: from a disconnect to the next connect the host posts no
\* orderbook_update and no status other than disconnected, and a callback of
\* a torn-down session never writes the Book Engine
C14_NoPostTeardownPublish ==
  /\ ~started =>
       \A k \in DOMAIN events :
         /\ events[k][1] # "ORDERBOOK_UPDATE"
         /\ events[k][1] = "STATUS_CHANGE" => events[k][2] = "disconnected"
  /\ Called("tornDown") =>
       ~HasEvent("applySnapshot") /\ ~HasEvent("applyDelta")

(***************************************************************************)
(* SpecSH: the shared host: ports open, send CONNECT, DISCONNECT, PING and *)
(* VISIBILITY, and are pruned, around one session at a time.  The stream   *)
(* carries one delta, every request succeeds, the socket opens and may     *)
(* fire an error event.  What a torn-down session leaves behind is         *)
(* followed in SpecTD.                                                     *)
(***************************************************************************)
Ports == 1..NumPorts

SHDeltas == { [U |-> 2, u |-> 3] }

SHSnapshotIds == {2}

\* self.onconnect
OnConnect ==
  \E p \in Ports \ opened :
    LET pm == MapSet(portMap, p, [hidden |-> FALSE]) IN
    /\ Apply(broadcastTabCount(Emit(Host, <<"onconnect", p>>), pm))
    /\ portMap' = pm
    /\ opened' = opened \cup {p}
    /\ UNCHANGED old

\* port.onmessage, CONNECT
PortConnect ==
  \E p \in opened :
    LET r0 == Emit(Host, <<"CONNECT", p, started>>) IN
    /\ Apply(IF ~started THEN connect(r0, FALSE) ELSE sendCurrentState(r0, p))
    /\ UNCHANGED shVars

\* port.onmessage, DISCONNECT; the consumer then closes the port
PortDisconnect ==
  \E p \in opened :
    LET pm == MapDelete(portMap, p) IN
    /\ Apply(dropPorts(Emit(Host, <<"DISCONNECT", p>>), pm))
    /\ portMap' = pm
    /\ opened' = opened \ {p}
    /\ UNCHANGED old

\* port.onmessage, PING: lastSeen is refreshed
Ping ==
  \E p \in opened :
    /\ Apply(Emit(Host, <<"PING", p>>))
    /\ UNCHANGED shVars

\* port.onmessage, VISIBILITY
Visibility ==
  \E p \in opened : \E h \in BOOLEAN :
    LET r0 == Emit(Host, <<"VISIBILITY", p, h>>) IN
    /\ Apply(IF ~h THEN sendCurrentState(r0, p) ELSE r0)
    /\ portMap' = IF p \in DOMAIN portMap
                  THEN MapSet(portMap, p, [hidden |-> h])
                  ELSE portMap
    /\ UNCHANGED <<opened, old>>

\* the 3 s prune interval of a running session; stale: the ports not seen
\* for longer than their threshold (any port may have been silent that
\* long, and any other may have sent a PING just before the scan)
PruneStale ==
  /\ started
  /\ \E stale \in SUBSET DOMAIN portMap :
       LET pm == [p \in DOMAIN portMap \ stale |-> portMap[p]]
           r0 == Emit(Host, <<"pruneStale", stale>>)
       IN
       /\ Apply(IF stale = {} THEN r0 ELSE dropPorts(r0, pm))
       /\ portMap' = pm
       /\ UNCHANGED <<opened, old>>

SHMessage == WsMessageOf(SHDeltas)

\* a request resolves with a snapshot; isDirty: what postSlice polls
SHFetchOk ==
  \E i \in inflight \ aborted : \E sn \in SHSnapshotIds :
    \E isDirty \in BOOLEAN :
      Commit(processSnapshot([Host EXCEPT !.inflight = @ \ {i},
                                          !.isDirty = isDirty], sn))

\* the 100 ms interval of the shared host
SHUpdateInterval ==
  /\ started
  /\ \E isDirty \in BOOLEAN :
       Commit(IF currentState = "synchronized"
              THEN postSlice([Host EXCEPT !.isDirty = isDirty])
              ELSE Host)

NextSH ==
  \/ OnConnect
  \/ PortConnect
  \/ PortDisconnect
  \/ Ping
  \/ Visibility
  \/ PruneStale
  \/ WsOpen
  \/ SHMessage
  \/ WsError
  \/ SHFetchOk
  \/ SHUpdateInterval

SpecSH == Init /\ [][NextSH]_vars

(***************************************************************************)
(* Properties of the shared host (SpecSH)                                  *)
(***************************************************************************)
\* the messages the last handler broadcast that reached port p (every
\* handler changes the port map before it broadcasts, so the map of the
\* state it ends in is the map broadcastToAll iterated), and the messages
\* it posted to port p alone
BroadcastTo(p) ==
  SelectSeq(events,
            LAMBDA e : /\ e[1] \in {"STATUS_CHANGE", "ORDERBOOK_UPDATE",
                                     "METRICS"}
                       /\ broadcastToAll(portMap, p, e))

SentTo(p) ==
  LET sel == SelectSeq(events, LAMBDA e : e[1] = "SEND" /\ e[2] = p) IN
  [k \in 1..Len(sel) |-> sel[k][3]]

\* C15: whenever the port map is empty the host runs no session
C15_NoSessionWithoutPorts == DOMAIN portMap = {} => ~started

\* C16: of what a handler broadcasts, a port flagged hidden gets every
\* status_change and metrics message and no orderbook_update
C16_HiddenPortFiltering ==
  \A p \in DOMAIN portMap :
    portMap[p].hidden =>
      BroadcastTo(p) =
        SelectSeq(events, LAMBDA e : e[1] \in {"STATUS_CHANGE", "METRICS"})

\* a handler broadcast a status and a slice: the visible port got both, the
\* hidden port the status alone
C16_Witness ==
  \E p, q \in DOMAIN portMap :
    /\ portMap[p].hidden
    /\ ~portMap[q].hidden
    /\ BroadcastTo(q) = << <<"STATUS_CHANGE", "connected">>,
                           <<"ORDERBOOK_UPDATE", lastId>> >>
    /\ BroadcastTo(p) = << <<"STATUS_CHANGE", "connected">> >>

\* the last handler was CONNECT from a port while a session ran
LateJoin == Called("CONNECT") /\ events[1][3]

\* C17: a port that sends CONNECT while a session runs is sent the status
\* most recently broadcast and, if the manager is synchronized, a fresh
\* slice
C17_LateJoinerHandshake ==
  LateJoin =>
    SentTo(events[1][2]) =
      IF currentState = "synchronized"
      THEN << <<"STATUS_CHANGE", status>>, <<"ORDERBOOK_UPDATE", lastId>> >>
      ELSE << <<"STATUS_CHANGE", status>> >>

\* C35: a scan of the pruner removes no port that is attached (it has not
\* sent DISCONNECT), so the scan leaves the session running
C35_Step ==
  (events' # <<>> /\ events'[1][1] = "pruneStale") =>
    /\ (opened \cap DOMAIN portMap) \subseteq DOMAIN portMap'
    /\ (started => started')

C35_AttachedPortKept == [][C35_Step]_vars

(***************************************************************************)
(* SpecFB: the Frame Bridge (hooks/useRAFBridge.ts, useRAFBridge) and the  *)
(* store (store/orderbook.ts).  Slices are numbered in the order the       *)
(* worker sends them.                                                      *)
(***************************************************************************)
Statuses == {"connecting", "connected", "error"}

\* handleWorkerMessage, case ORDERBOOK_UPDATE (the worker of the
\* shared-memory variant posts none, and its page runs no useRAFBridge)
handleOrderbookUpdate ==
  /\ ~readerRef
  /\ sent < MaxSlices
  /\ sent' = sent + 1
  /\ messageCount' = messageCount + 1
  /\ latestData' = Slice(sent + 1)
  /\ dirty' = TRUE
  /\ arrived' = Append(arrived, Slice(sent + 1))
  /\ fresh' = TRUE
  /\ lastTick' = NoTick
  /\ UNCHANGED <<hidden, storeVars, revealed, phVars, leVars, sabVars>>

\* worker.onmessage of the page that owns the worker and broadcasts nothing
FbSlice == handleOrderbookUpdate /\ UNCHANGED bcVars

\* handleWorkerMessage, case STATUS_CHANGE: setConnectionStatus
handleStatusChange(st) ==
  /\ connectionStatus' = st
  /\ lastTick' = NoTick
  /\ UNCHANGED <<fbVars, liveOrderbook, frozenOrderbook, isFrozen, metrics,
                 sent, arrived, fresh, revealed, phVars, leVars, sabVars>>

FbStatus == (\E st \in Statuses : handleStatusChange(st)) /\ UNCHANGED bcVars

\* document's visibilitychange: handleVisibilityChange (resetMetrics, and
\* the latest slice is marked dirty again)
VisibilityChange ==
  /\ hidden' = ~hidden
  /\ messageCount' = 0
  /\ dirty' = IF latestData # NoSlice THEN TRUE ELSE dirty
  /\ revealed' = TRUE
  /\ lastTick' = NoTick
  /\ UNCHANGED <<latestData, storeVars, sent, arrived, fresh, phVars, leVars,
                 sabVars, bcVars>>

\* mutant of Tick: the dirty flag is left set after the push
Tick_keepDirty ==
  \E due \in BOOLEAN :
    LET push == dirty /\ latestData # NoSlice IN
    /\ ~readerRef
    /\ liveOrderbook' = IF push THEN latestData ELSE liveOrderbook
    /\ dirty' = dirty
    /\ IF ~hidden /\ due
       THEN metrics' = messageCount /\ messageCount' = 0
       ELSE UNCHANGED <<metrics, messageCount>>
    /\ lastTick' = [ran |-> TRUE, dirty |-> dirty, latestData |-> latestData,
                    arrived |-> arrived, fresh |-> fresh,
                    revealed |-> revealed,
                    pushed |-> IF push THEN <<latestData>> ELSE <<>>]
    /\ arrived' = <<>>
    /\ fresh' = IF push THEN FALSE ELSE fresh
    /\ revealed' = IF push THEN FALSE ELSE revealed
    /\ UNCHANGED <<latestData, hidden, frozenOrderbook, isFrozen,
                   connectionStatus, sent, phVars, leVars, sabVars,
                   bcVars>>

\* tick, the requestAnimationFrame callback; due: a second has passed since
\* the last metrics update
Tick ==
  \E due \in BOOLEAN :
    LET push == dirty /\ latestData # NoSlice IN
    /\ ~readerRef
    /\ liveOrderbook' = IF push THEN latestData ELSE liveOrderbook
    /\ dirty' = IF push THEN FALSE ELSE dirty
    /\ IF ~hidden /\ due
       THEN metrics' = messageCount /\ messageCount' = 0
       ELSE UNCHANGED <<metrics, messageCount>>
    /\ lastTick' = [ran |-> TRUE, dirty |-> dirty, latestData |-> latestData,
                    arrived |-> arrived, fresh |-> fresh,
                    revealed |-> revealed,
                    pushed |-> IF push THEN <<latestData>> ELSE <<>>]
    /\ arrived' = <<>>
    /\ fresh' = IF push THEN FALSE ELSE fresh
    /\ revealed' = IF push THEN FALSE ELSE revealed
    /\ UNCHANGED <<latestData, hidden, frozenOrderbook, isFrozen,
                   connectionStatus, sent, phVars, leVars, sabVars,
                   bcVars>>

\* mutant of Freeze: the slice last received is captured, not the live one
Freeze_latest ==
  /\ rpc = "idle"
  /\ isFrozen' = TRUE
  /\ frozenOrderbook' = latestData
  /\ lastTick' = NoTick
  /\ UNCHANGED <<fbVars, liveOrderbook, connectionStatus, metrics,
                 sent, arrived, fresh, revealed, phVars, leVars, sabVars,
                 bcVars>>

\* store.freeze(), from a handler of the page's thread: between two ticks
Freeze ==
  /\ rpc = "idle"
  /\ isFrozen' = TRUE
  /\ frozenOrderbook' = liveOrderbook
  /\ lastTick' = NoTick
  /\ UNCHANGED <<fbVars, liveOrderbook, connectionStatus, metrics,
                 sent, arrived, fresh, revealed, phVars, leVars, sabVars,
                 bcVars>>

\* store.unfreeze()
Unfreeze ==
  /\ rpc = "idle"
  /\ isFrozen' = FALSE
  /\ frozenOrderbook' = NoSlice
  /\ lastTick' = NoTick
  /\ UNCHANGED <<fbVars, liveOrderbook, connectionStatus, metrics,
                 sent, arrived, fresh, revealed, phVars, leVars, sabVars,
                 bcVars>>

NextFB ==
  \/ FbSlice
  \/ FbStatus
  \/ VisibilityChange
  \/ Tick
  \/ Freeze
  \/ Unfreeze

SpecFB == Init /\ [][NextFB]_vars

(***************************************************************************)
(* Properties of the Frame Bridge (SpecFB)                                 *)
(***************************************************************************)
\* what every frame tick does: at most one push, a push exactly when the
\* dirty flag was set and a slice was present, the slice pushed is the last
\* one received, and the dirty flag is left cleared
TickCoalesces ==
  /\ Len(lastTick.pushed) <= 1
  /\ (lastTick.pushed # <<>>) <=>
       (lastTick.dirty /\ lastTick.latestData # NoSlice)
  /\ lastTick.pushed # <<>> =>
       /\ lastTick.pushed[1] = Slice(sent)
       /\ liveOrderbook = Slice(sent)
  /\ lastTick.arrived # <<>> =>
       lastTick.pushed = <<lastTick.arrived[Len(lastTick.arrived)]>>
  /\ dirty = FALSE

\* C9 as stated: ... and a tick with no slice received since the last push
\* performs no store update
C9_NoPushWithoutSlice ==
  lastTick.ran =>
    /\ TickCoalesces
    /\ ~lastTick.fresh => lastTick.pushed = <<>>

\* C9 amended: every tick calls updateLive at most once, exactly when the
\* dirty flag is set and a slice is present, with the most recently received
\* slice, and leaves the flag cleared; a tick with no slice received and no
\* visibility change since the last push performs no store update
C9_FrameCoalescing ==
  lastTick.ran =>
    /\ TickCoalesces
    /\ (~lastTick.fresh /\ ~lastTick.revealed) => lastTick.pushed = <<>>

\* a tick after two slices arrived pushed the second one only
C9_Witness ==
  /\ lastTick.ran
  /\ Len(lastTick.arrived) = 2
  /\ lastTick.pushed = <<lastTick.arrived[2]>>
  /\ liveOrderbook = lastTick.arrived[2]

(***************************************************************************)
(* SpecBC: the leader's page in broadcast mode (hooks/useWorker.ts,        *)
(* useBroadcastMode) with its BroadcastChannel (OrderbookBroadcast) and a  *)
(* follower that receives what is posted.  A message is the triple of its  *)
(* type, its payload and its number in the order the worker sent them.     *)
(***************************************************************************)
\* OrderbookBroadcast.broadcast: the bus after broadcast(msg)
broadcast(b, msg) == IF ~isLeaderCh THEN b ELSE Append(b, msg)

\* onBecomeLeader: channel.setLeader(true), createWorker()
BecomeLeader ==
  /\ ~isLeaderCh
  /\ ~readerRef
  /\ isLeaderCh' = TRUE
  /\ workerRef' = TRUE
  /\ UNCHANGED <<pendingBroadcastRef, broadcastRafRef, bus, emitted,
                 delivered, phVars, uiVars, leVars, sabVars>>

\* onBecomeFollower: channel.setLeader(false), destroyWorker() (the frame
\* request is cancelled, the pending slice dropped, the worker terminated),
\* setConnectionStatus('connected')
BecomeFollower ==
  /\ isLeaderCh
  /\ isLeaderCh' = FALSE
  /\ broadcastRafRef' = FALSE
  /\ pendingBroadcastRef' = NoMsg
  /\ workerRef' = FALSE
  /\ connectionStatus' = "connected"
  /\ lastTick' = NoTick
  /\ UNCHANGED <<bus, emitted, delivered, fbVars, liveOrderbook,
                 frozenOrderbook, isFrozen, metrics, sent, arrived, fresh,
                 revealed, phVars, leVars, sabVars>>

\* mutant of WorkerSlice: a slice that arrives while another is pending is
\* not taken
WorkerSlice_keepsPending ==
  /\ workerRef
  /\ emitted < MaxEmitted
  /\ handleOrderbookUpdate
  /\ emitted' = emitted + 1
  /\ pendingBroadcastRef' =
       IF pendingBroadcastRef = NoMsg
       THEN <<"ORDERBOOK_UPDATE", Slice(sent + 1), emitted + 1>>
       ELSE pendingBroadcastRef
  /\ broadcastRafRef' = TRUE
  /\ UNCHANGED <<isLeaderCh, workerRef, bus, delivered>>

\* worker.onmessage, ORDERBOOK_UPDATE: the bridge takes the slice, the slice
\* becomes the pending broadcast and a frame is requested (once)
WorkerSlice ==
  /\ workerRef
  /\ emitted < MaxEmitted
  /\ handleOrderbookUpdate
  /\ emitted' = emitted + 1
  /\ pendingBroadcastRef' =
       <<"ORDERBOOK_UPDATE", Slice(sent + 1), emitted + 1>>
  /\ broadcastRafRef' = TRUE
  /\ UNCHANGED <<isLeaderCh, workerRef, bus, delivered>>

\* worker.onmessage, any other message: the bridge takes it and it is
\* broadcast at once
WorkerStatus ==
  /\ workerRef
  /\ emitted < MaxEmitted
  /\ \E st \in Statuses :
       /\ handleStatusChange(st)
       /\ bus' = broadcast(bus, <<"STATUS_CHANGE", st, emitted + 1>>)
  /\ emitted' = emitted + 1
  /\ UNCHANGED <<isLeaderCh, workerRef, pendingBroadcastRef,
                 broadcastRafRef, delivered>>

\* the callback of requestAnimationFrame at the next display frame
BroadcastFrame ==
  /\ broadcastRafRef
  /\ broadcastRafRef' = FALSE
  /\ bus' = IF pendingBroadcastRef # NoMsg
            THEN broadcast(bus, pendingBroadcastRef) ELSE bus
  /\ pendingBroadcastRef' = NoMsg
  /\ UNCHANGED <<isLeaderCh, workerRef, emitted, delivered, phVars, uiVars,
                 leVars, sabVars>>

\* the follower's channel delivers the next message of the bus:
\* OrderbookBroadcast.handleMessage, case DATA, hands the payload on
FollowerReceive ==
  /\ delivered < Len(bus)
  /\ delivered' = delivered + 1
  /\ UNCHANGED <<isLeaderCh, workerRef, pendingBroadcastRef,
                 broadcastRafRef, bus, emitted, phVars, uiVars, leVars,
                 sabVars>>

NextBC ==
  \/ BecomeLeader
  \/ BecomeFollower
  \/ WorkerSlice
  \/ WorkerStatus
  \/ BroadcastFrame
  \/ FollowerReceive

SpecBC == Init /\ [][NextBC]_vars

(***************************************************************************)
(* Properties of the broadcast mode (SpecBC)                               *)
(***************************************************************************)
\* the messages a step posts on the bus
Posted == SubSeq(bus', Len(bus) + 1, Len(bus'))

\* a display frame of the leader's page that runs the requested callback
FrameRuns == broadcastRafRef /\ ~broadcastRafRef' /\ isLeaderCh'

\* the page receives a message of the worker that is not a slice
StatusReceived == emitted' # emitted /\ sent' = sent

\* C31: a slice is posted on the bus only by the callback of a display
\* frame, one a frame, and it is the slice the worker sent last; a status
\* change is posted by the handler that receives it
C31_Step ==
  /\ (\E k \in DOMAIN Posted : Posted[k][1] = "ORDERBOOK_UPDATE") =>
       /\ FrameRuns
       /\ Len(Posted) = 1
       /\ Posted[1][2] = Slice(sent)
  /\ StatusReceived =>
       Posted = << <<"STATUS_CHANGE", connectionStatus', emitted'>> >>

C40_OrderPreserved ==
  \A i, j \in 1..delivered : i < j => bus[i][3] < bus[j][3]

(***************************************************************************)
(* SpecLE: leader election over the localStorage cell                      *)
(* (lib/leader-election.ts).  A tab runs one handler at a time; the        *)
(* storage operations of different tabs interleave.  checkInterval is      *)
(* "new" before start(), "on" while the tab runs, "off" after stop().      *)
(***************************************************************************)
\* localStorage.setItem by tab t, and the storage event it raises in the
\* other running tabs (one undelivered event per tab is kept)
setItem(t, record) ==
  /\ cell' = record
  /\ storageEvent' =
       [o \in Tabs |->
          IF o # t /\ checkInterval[o] = "on" /\ record # cell
          THEN TRUE ELSE storageEvent[o]]

\* tryClaimLeadership up to its first write: readRecord and the decision
tryClaimLeadership(t) ==
  LET record == cell IN
  IF record # NoRecord /\ record.tabId = t
  THEN /\ pc' = [pc EXCEPT ![t] = "heartbeat"]
       /\ UNCHANGED <<leader, heartbeatInterval>>
  ELSE IF record # NoRecord /\ DateNow - record.timestamp < STALE_THRESHOLD
  THEN /\ pc' = [pc EXCEPT ![t] = "idle"]
       /\ leader' = [leader EXCEPT ![t] = FALSE]
       /\ heartbeatInterval' =
            [heartbeatInterval EXCEPT ![t] = IF leader[t] THEN FALSE ELSE @]
  ELSE /\ pc' = [pc EXCEPT ![t] = "claim"]
       /\ UNCHANGED <<leader, heartbeatInterval>>

\* start()
Start ==
  \E t \in Tabs :
    /\ checkInterval[t] = "new"
    /\ checkInterval' = [checkInterval EXCEPT ![t] = "on"]
    /\ tryClaimLeadership(t)
    /\ UNCHANGED <<cell, now, storageEvent, phVars, uiVars, sabVars,
                 bcVars>>

\* the check interval fires
Check ==
  \E t \in Tabs :
    /\ checkInterval[t] = "on"
    /\ pc[t] = "idle"
    /\ tryClaimLeadership(t)
    /\ UNCHANGED <<cell, now, checkInterval, storageEvent, phVars, uiVars,
                 sabVars, bcVars>>

\* onStorage: both branches call tryClaimLeadership
OnStorage ==
  \E t \in Tabs :
    /\ checkInterval[t] = "on"
    /\ pc[t] = "idle"
    /\ storageEvent[t]
    /\ storageEvent' = [storageEvent EXCEPT ![t] = FALSE]
    /\ tryClaimLeadership(t)
    /\ UNCHANGED <<cell, now, checkInterval, phVars, uiVars, sabVars,
                 bcVars>>

\* tryClaimLeadership, "we are already the leader": writeHeartbeat
HeartbeatOwn ==
  \E t \in Tabs :
    /\ pc[t] = "heartbeat"
    /\ setItem(t, [tabId |-> t, timestamp |-> DateNow])
    /\ pc' = [pc EXCEPT ![t] = "idle"]
    /\ UNCHANGED <<now, leader, heartbeatInterval, checkInterval, phVars,
                   uiVars, sabVars, bcVars>>

\* claimLeadership: writeHeartbeat
ClaimWrite ==
  \E t \in Tabs :
    /\ pc[t] = "claim"
    /\ setItem(t, [tabId |-> t, timestamp |-> DateNow])
    /\ pc' = [pc EXCEPT ![t] = "verify"]
    /\ UNCHANGED <<now, leader, heartbeatInterval, checkInterval, phVars,
                   uiVars, sabVars, bcVars>>

\* claimLeadership: the read-back and what follows it
ClaimVerify ==
  \E t \in Tabs :
    /\ pc[t] = "verify"
    /\ pc' = [pc EXCEPT ![t] = "idle"]
    /\ IF cell # NoRecord /\ cell.tabId = t /\ ~leader[t]
       THEN /\ leader' = [leader EXCEPT ![t] = TRUE]
            /\ heartbeatInterval' = [heartbeatInterval EXCEPT ![t] = TRUE]
       ELSE UNCHANGED <<leader, heartbeatInterval>>
    /\ UNCHANGED <<cell, now, checkInterval, storageEvent, phVars, uiVars,
                 sabVars, bcVars>>

\* the heartbeat interval fires: writeHeartbeat
Heartbeat ==
  \E t \in Tabs :
    /\ heartbeatInterval[t]
    /\ pc[t] = "idle"
    /\ setItem(t, [tabId |-> t, timestamp |-> DateNow])
    /\ UNCHANGED <<now, leader, heartbeatInterval, checkInterval, pc, phVars,
                   uiVars, sabVars, bcVars>>

\* mutant of Stop: a leader that stops leaves its record in the cell
Stop_keepsRecord ==
  \E t \in Tabs :
    /\ checkInterval[t] = "on"
    /\ pc[t] = "idle"
    /\ heartbeatInterval' = [heartbeatInterval EXCEPT ![t] = FALSE]
    /\ checkInterval' = [checkInterval EXCEPT ![t] = "off"]
    /\ leader' = [leader EXCEPT ![t] = FALSE]
    /\ UNCHANGED <<cell, storageEvent>>
    /\ UNCHANGED <<now, pc, phVars, uiVars, sabVars, bcVars>>

\* stop(), also the beforeunload handler
Stop ==
  \E t \in Tabs :
    /\ checkInterval[t] = "on"
    /\ pc[t] = "idle"
    /\ heartbeatInterval' = [heartbeatInterval EXCEPT ![t] = FALSE]
    /\ checkInterval' = [checkInterval EXCEPT ![t] = "off"]
    /\ leader' = [leader EXCEPT ![t] = FALSE]
    /\ IF leader[t]
       THEN setItem(t, NoRecord)
       ELSE UNCHANGED <<cell, storageEvent>>
    /\ UNCHANGED <<now, pc, phVars, uiVars, sabVars, bcVars>>

\* time passes
Advance ==
  /\ now < MaxClock
  /\ now' = now + 1
  /\ UNCHANGED <<cell, leader, heartbeatInterval, checkInterval, pc,
                 storageEvent, phVars, uiVars, sabVars,
                 bcVars>>

NextLE ==
  \/ Start
  \/ Check
  \/ OnStorage
  \/ HeartbeatOwn
  \/ ClaimWrite
  \/ ClaimVerify
  \/ Heartbeat
  \/ Stop
  \/ Advance

SpecLE == Init /\ [][NextLE]_vars

\* a handler of tab t that changes its position or its flag: the check
\* interval and the storage listener fire while the tab runs, and the
\* writes and the read-back of a handler that began are carried out
TabStep(t) ==
  /\ Check \/ OnStorage \/ HeartbeatOwn \/ ClaimWrite \/ ClaimVerify
  /\ pc'[t] # pc[t] \/ leader'[t] # leader[t]

\* SpecLEFair: SpecLE where no running tab is starved of its handlers
SpecLEFair == SpecLE /\ \A t \in Tabs : WF_vars(TabStep(t))

(***************************************************************************)
(* Properties of leader election (SpecLE)                                  *)
(***************************************************************************)
Leaders == {t \in Tabs : leader[t]}

\* C7: at every instant at most one tab has its leader flag set, under
\* every interleaving of reads, writes, read-backs, heartbeats, checks and
\* storage events
C7_LeaderUniqueness == Cardinality(Leaders) <= 1

\* the tabs between start() and stop()
Running == {t \in Tabs : checkInterval[t] = "on"}

\* stop() of a tab whose leader flag is set
LeaderStops ==
  \E t \in Tabs :
    leader[t] /\ checkInterval[t] = "on" /\ checkInterval'[t] = "off"

\* C18: stop() of the leader leaves the cell empty, and from an empty cell
\* with a tab running, a tab is leader at some later instant unless every
\* tab has stopped by then (SpecLEFair)
C18_LeaderHandOver ==
  /\ [][LeaderStops => cell' = NoRecord]_vars
  /\ (cell = NoRecord /\ Running # {}) ~> (Leaders # {} \/ Running = {})

\* the leader stopped and emptied the cell; the other tab runs, has the
\* storage event of the removal pending and is not leader yet
C18_Witness ==
  /\ cell = NoRecord
  /\ Leaders = {}
  /\ \E t \in Tabs : checkInterval[t] = "off"
  /\ \E o \in Running : storageEvent[o]

\* C39: stop() of a tab changes the cell only when the cell holds the
\* stopping tab's own record
C39_Step ==
  \A t \in Tabs :
    checkInterval[t] = "on" /\ checkInterval'[t] = "off" /\ cell' # cell
      => cell.tabId = t

C39_StopKeepsOthersRecord == [][C39_Step]_vars

\* exactly one tab is leader and the cell holds its record
OneLeader == \E t \in Tabs : Leaders = {t} /\ cell.tabId = t

\* C38: if from some instant on a tab is running (the tabs that run keep
\* running), the system reaches, and then stays in, a state where exactly
\* one tab is leader and the cell holds that tab's record
C38_LeaderConvergence == <>[](Running # {}) => <>[]OneLeader

(***************************************************************************)
(* SpecSAB: the shared-memory fabric.  SABWriter.encode runs in the worker *)
(* and SABReader.readVersion / decode in the page's frame tick; their      *)
(* loads and stores interleave.                                            *)
(***************************************************************************)
Min(a, b) == IF a < b THEN a ELSE b

\* the level table after the loop that stores levs from slot base on
RECURSIVE storeLevels(_, _, _)
storeLevels(levels, base, levs) ==
  IF levs = <<>> THEN levels
  ELSE storeLevels([levels EXCEPT ![base] = Head(levs)], base + 1,
                   Tail(levs))

\* mutant of loadLevels: the loop reads one slot further on
loadLevels_nextSlot(pool, base, count) ==
  [k \in 1..MAX_DEPTH |->
     IF k <= count THEN mem.levels[base + k] ELSE pool[k]]

\* the pool after the loop that loads its first count levels from slot base
loadLevels(pool, base, count) ==
  [k \in 1..MAX_DEPTH |->
     IF k <= count THEN mem.levels[base + k - 1] ELSE pool[k]]

\* decodeOrderbookSlice(buffer): new arrays of the stored counts, not
\* clamped, and the header floats
decodeOrderbookSlice(m) ==
  [bids |-> [k \in 1..m.bidCount |-> m.levels[k - 1]],
   asks |-> [k \in 1..m.askCount |-> m.levels[MAX_DEPTH + k - 1]],
   head |-> m.head]

\* the largest value of an Int32Array element
MaxInt32 == 2147483647

\* Atomics.store(ver, 0, Atomics.load(ver, 0) + 1) on an Int32Array: the
\* sum is stored modulo 2^32, as a signed 32-bit integer
bumpInt32(v) == IF v = MaxInt32 THEN (0 - MaxInt32) - 1 ELSE v + 1

\* a step of encode while a decode is under way, or the reverse
Overlaps(w, r) == overlap \/ (w # "idle" /\ r \in {"bids", "asks", "head"})

\* the worker's CONNECT: SAB_READY reaches the page (readerRef, line 228)
SabReady ==
  /\ ~readerRef
  /\ sent = 0
  /\ readerRef' = TRUE
  /\ lastVersionRef' = 0
  /\ UNCHANGED <<mem, wpc, wSlice, rpc, rv, rCounts, bidPool, askPool,
                 written, overlap, lastDecode, phVars, uiVars, leVars,
                 bcVars>>

\* writeSlice: encode(slice) starts; the counts and the header floats
EncodeHeader ==
  /\ wpc = "idle"
  /\ Len(written) < MaxWrites
  /\ \E slice \in SabSlices :
       /\ wSlice' = slice
       /\ mem' = [mem EXCEPT !.bidCount = Len(slice.bids),
                             !.askCount = Len(slice.asks),
                             !.head = slice.head]
  /\ wpc' = "bids"
  /\ overlap' = Overlaps("bids", rpc)
  /\ UNCHANGED <<readerRef, lastVersionRef, rpc, rv, rCounts, bidPool,
                 askPool, written, lastDecode, phVars, uiVars, leVars,
                 bcVars>>

\* encode: the loop over slice.bids
EncodeBids ==
  /\ wpc = "bids"
  /\ mem' = [mem EXCEPT !.levels = storeLevels(@, 0, wSlice.bids)]
  /\ wpc' = "asks"
  /\ overlap' = Overlaps("asks", rpc)
  /\ UNCHANGED <<wSlice, readerRef, lastVersionRef, rpc, rv, rCounts,
                 bidPool, askPool, written, lastDecode, phVars, uiVars,
                 leVars, bcVars>>

\* encode: the loop over slice.asks
EncodeAsks ==
  /\ wpc = "asks"
  /\ mem' = [mem EXCEPT !.levels = storeLevels(@, MAX_DEPTH, wSlice.asks)]
  /\ wpc' = "bump"
  /\ overlap' = Overlaps("bump", rpc)
  /\ UNCHANGED <<wSlice, readerRef, lastVersionRef, rpc, rv, rCounts,
                 bidPool, askPool, written, lastDecode, phVars, uiVars,
                 leVars, bcVars>>

\* encode: Atomics.store(ver, 0, Atomics.load(ver, 0) + 1)
EncodeBump ==
  /\ wpc = "bump"
  /\ mem' = [mem EXCEPT !.version = bumpInt32(@)]
  /\ written' = Append(written, wSlice)
  /\ wpc' = "idle"
  /\ overlap' = Overlaps("bump", rpc)
  /\ UNCHANGED <<wSlice, readerRef, lastVersionRef, rpc, rv, rCounts,
                 bidPool, askPool, lastDecode, phVars, uiVars, leVars,
                 bcVars>>

\* mutant of SabTick: a new version is decoded whether frozen or not
SabTick_ignoresFrozen ==
  /\ rpc = "idle"
  /\ readerRef
  /\ \E due \in BOOLEAN :
       LET v == mem.version
           newer == v > lastVersionRef
           count == IF newer THEN messageCount + 1 ELSE messageCount
           decodes == newer
       IN
       /\ lastVersionRef' = IF newer THEN v ELSE lastVersionRef
       /\ rv' = v
       /\ rpc' = IF decodes THEN "counts" ELSE "idle"
       /\ overlap' = IF decodes THEN FALSE ELSE overlap
       \* the metrics of a tick that decodes are published after the decode
       /\ IF due /\ ~decodes
          THEN metrics' = count /\ messageCount' = 0
          ELSE metrics' = metrics /\ messageCount' = count
  /\ UNCHANGED <<mem, wpc, wSlice, readerRef, rCounts, bidPool, askPool,
                 written, lastDecode, phVars, fbObsVars, latestData, dirty,
                 hidden, liveOrderbook, frozenOrderbook, isFrozen,
                 connectionStatus, leVars, bcVars>>

\* tick of useSABWorker up to the call of decode: readVersion and the
\* comparison with lastVersionRef, and the whole tick when it does not
\* decode; due: a second has passed since the last metrics update
SabTick ==
  /\ rpc = "idle"
  /\ readerRef
  /\ \E due \in BOOLEAN :
       LET v == mem.version
           newer == v > lastVersionRef
           count == IF newer THEN messageCount + 1 ELSE messageCount
           decodes == newer /\ ~isFrozen
       IN
       /\ lastVersionRef' = IF newer THEN v ELSE lastVersionRef
       /\ rv' = v
       /\ rpc' = IF decodes THEN "counts" ELSE "idle"
       /\ overlap' = IF decodes THEN FALSE ELSE overlap
       \* the metrics of a tick that decodes are published after the decode
       /\ IF due /\ ~decodes
          THEN metrics' = count /\ messageCount' = 0
          ELSE metrics' = metrics /\ messageCount' = count
  /\ UNCHANGED <<mem, wpc, wSlice, readerRef, rCounts, bidPool, askPool,
                 written, lastDecode, phVars, fbObsVars, latestData, dirty,
                 hidden, liveOrderbook, frozenOrderbook, isFrozen,
                 connectionStatus, leVars, bcVars>>

\* decode: the two counts, clamped to MAX_DEPTH
DecodeCounts ==
  /\ rpc = "counts"
  /\ rCounts' = <<Min(mem.bidCount, MAX_DEPTH), Min(mem.askCount, MAX_DEPTH)>>
  /\ rpc' = "bids"
  /\ overlap' = Overlaps(wpc, "bids")
  /\ UNCHANGED <<mem, wpc, wSlice, readerRef, lastVersionRef, rv, bidPool,
                 askPool, written, lastDecode, phVars, uiVars, leVars,
                 bcVars>>

\* decode: the loop over the bid levels
DecodeBids ==
  /\ rpc = "bids"
  /\ bidPool' = loadLevels(bidPool, 0, rCounts[1])
  /\ rpc' = "asks"
  /\ overlap' = Overlaps(wpc, "asks")
  /\ UNCHANGED <<mem, wpc, wSlice, readerRef, lastVersionRef, rv, rCounts,
                 askPool, written, lastDecode, phVars, uiVars, leVars,
                 bcVars>>

\* decode: the loop over the ask levels
DecodeAsks ==
  /\ rpc = "asks"
  /\ askPool' = loadLevels(askPool, MAX_DEPTH, rCounts[2])
  /\ rpc' = "head"
  /\ overlap' = Overlaps(wpc, "head")
  /\ UNCHANGED <<mem, wpc, wSlice, readerRef, lastVersionRef, rv, rCounts,
                 bidPool, written, lastDecode, phVars, uiVars, leVars,
                 bcVars>>

\* decode: the returned slice with the header floats, and the rest of the
\* tick: updateLiveOrderbook(slice) and the metrics; due as in SabTick
DecodeReturn ==
  /\ rpc = "head"
  /\ LET slice == [bids |-> SubSeq(bidPool, 1, rCounts[1]),
                   asks |-> SubSeq(askPool, 1, rCounts[2]),
                   head |-> mem.head]
     IN
     /\ liveOrderbook' = slice
     /\ lastDecode' = [done |-> TRUE, version |-> rv, slice |-> slice,
                       overlap |-> Overlaps(wpc, "head")]
  /\ \E due \in BOOLEAN :
       IF due
       THEN metrics' = messageCount /\ messageCount' = 0
       ELSE UNCHANGED <<metrics, messageCount>>
  /\ rpc' = "idle"
  /\ overlap' = FALSE
  /\ UNCHANGED <<mem, wpc, wSlice, readerRef, lastVersionRef, rv, rCounts,
                 bidPool, askPool, written, phVars, latestData, dirty,
                 hidden, fbObsVars, frozenOrderbook, isFrozen,
                 connectionStatus, leVars, bcVars>>

NextSAB ==
  \/ SabReady
  \/ EncodeHeader
  \/ EncodeBids
  \/ EncodeAsks
  \/ EncodeBump
  \/ SabTick
  \/ DecodeCounts
  \/ DecodeBids
  \/ DecodeAsks
  \/ DecodeReturn

SpecSAB == Init /\ [][NextSAB]_vars

(***************************************************************************)
(* Properties of the shared-memory fabric (SpecSAB)                        *)
(***************************************************************************)
\* C8: when no encode overlapped the decode, the slice decoded after
\* loading a new version v equals, field for field, the slice that was
\* passed to the encode that produced version v
C8_NoTornRead ==
  (lastDecode.done /\ ~lastDecode.overlap) =>
    lastDecode.slice = written[lastDecode.version]

(***************************************************************************)
(* SpecVC: the version counter over a long run.  SpecSAB, and in one step  *)
(* the encodes of the slice written last that take the counter from its    *)
(* value to MaxInt32 while the page runs no tick.                          *)
(***************************************************************************)
EncodeMany ==
  /\ wpc = "idle"
  /\ rpc = "idle"
  /\ mem.version \in 1..MaxWrites
  /\ mem' = [mem EXCEPT !.version = MaxInt32]
  /\ UNCHANGED <<wpc, wSlice, readerRef, lastVersionRef, rpc, rv, rCounts,
                 bidPool, askPool, written, overlap, lastDecode, phVars,
                 uiVars, leVars, bcVars>>

NextVC ==
  \/ NextSAB
  \/ EncodeMany

SpecVC == Init /\ [][NextVC]_vars

\* the version bump of an encode
Bump == wpc = "bump" /\ wpc' = "idle"

\* C25: each encode increases the version counter by exactly 1 after its
\* data stores, so the values a reader can load never decrease and
\* increase with every encode, for any number of encodes
C25_VersionCounter ==
  /\ [][Bump => (mem.version' > mem.version
                 /\ mem.version' - mem.version = 1)]_vars
  /\ [][mem.version' >= mem.version]_vars

(***************************************************************************)
(* SpecFZ: the store under freeze() and unfreeze() with its feeders: the   *)
(* tick of useRAFBridge (shared-host and leader-replicated variants) or,   *)
(* once SAB_READY has arrived, the tick of useSABWorker.                   *)
(***************************************************************************)
NextFZ ==
  \/ FbSlice
  \/ Tick
  \/ Freeze
  \/ Unfreeze
  \/ SabReady
  \/ EncodeHeader
  \/ EncodeBids
  \/ EncodeAsks
  \/ EncodeBump
  \/ SabTick
  \/ DecodeCounts
  \/ DecodeBids
  \/ DecodeAsks
  \/ DecodeReturn

SpecFZ == Init /\ [][NextFZ]_vars

\* selectDisplayedOrderbook
Displayed == IF isFrozen THEN frozenOrderbook ELSE liveOrderbook

\* a call of freeze(): the flag is set and the frozen reference written
FreezeCall == isFrozen' /\ (~isFrozen \/ frozenOrderbook' # frozenOrderbook)

\* C26: freeze() makes the displayed slice the live slice of that moment;
\* while frozen no updateLiveOrderbook changes it; unfreeze() makes it the
\* current live slice
C26_Step ==
  /\ FreezeCall =>
       frozenOrderbook' = liveOrderbook /\ Displayed' = liveOrderbook
  /\ (isFrozen /\ isFrozen' /\ ~FreezeCall) => Displayed' = Displayed
  /\ (isFrozen /\ ~isFrozen') =>
       Displayed' = liveOrderbook' /\ liveOrderbook' = liveOrderbook

C26_FreezeRoundTrip == [][C26_Step]_vars

\* frozen, and the live slice has moved on from the displayed one
C26_Witness ==
  /\ isFrozen
  /\ frozenOrderbook # NoSlice
  /\ liveOrderbook # frozenOrderbook
  /\ Displayed = frozenOrderbook

\* a frame tick of useRAFBridge that found the dirty flag set and a slice
BridgeTickDue ==
  /\ lastTick'.ran
  /\ lastTick' # lastTick
  /\ lastTick'.dirty
  /\ lastTick'.latestData # NoSlice

\* a frame tick of useSABWorker that loaded a version it had not seen
NewVersionSeen == readerRef /\ lastVersionRef' # lastVersionRef

C27_Step ==
  /\ (isFrozen /\ BridgeTickDue) =>
       liveOrderbook' = latestData /\ Displayed' = Displayed
  /\ (isFrozen /\ NewVersionSeen) =>
       /\ rpc' = "idle"
       /\ lastVersionRef' = mem.version
       /\ liveOrderbook' = liveOrderbook
       /\ Displayed' = Displayed
  /\ (isFrozen /\ ~isFrozen') => Displayed' = liveOrderbook

BidSlots == 0..(MAX_DEPTH - 1)

AskSlots == MAX_DEPTH..(2 * MAX_DEPTH - 1)

\* the slots whose floats a step of the writer changes
SlotsWritten == {k \in DOMAIN mem.levels : mem'.levels[k] # mem.levels[k]}

\* C33: the counts the writer stores are within 0..15, the loop over the
\* bids writes inside the bids table and the loop over the asks inside the
\* asks table, whatever depth the slices were cut to
C33_LayoutBounds ==
  /\ [](mem.bidCount \in 0..MAX_DEPTH /\ mem.askCount \in 0..MAX_DEPTH)
  /\ [][wpc = "bids" => SlotsWritten \subseteq BidSlots]_vars
  /\ [][wpc = "asks" => SlotsWritten \subseteq AskSlots]_vars

\* what the level objects referenced by the frozen slice hold now: the
\* frozen slice is the slice object of a decode, its arrays hold the pool's
\* level objects
FrozenNow ==
  [bids |-> SubSeq(bidPool, 1, Len(frozenOrderbook.bids)),
   asks |-> SubSeq(askPool, 1, Len(frozenOrderbook.asks)),
   head |-> frozenOrderbook.head]

\* C32: in shared-memory mode, while the frozen flag is set the tick takes
\* the version it loads as seen and no decode runs, and the level objects
\* the frozen slice refers to hold what they held at freeze()
C32_FreezeCoupling ==
  /\ [][(isFrozen /\ NewVersionSeen) => lastVersionRef' = mem.version]_vars
  /\ []((isFrozen /\ readerRef) => rpc = "idle")
  /\ []((isFrozen /\ readerRef /\ frozenOrderbook # NoSlice)
          => FrozenNow = frozenOrderbook)

\* frozen on the slice of version 1; version 2, with other levels, has been
\* written and seen, and the pools still hold the levels of version 1
C32_Witness ==
  /\ isFrozen
  /\ readerRef
  /\ frozenOrderbook # NoSlice
  /\ wpc = "idle"
  /\ mem.version = 2
  /\ lastVersionRef = 2
  /\ written[2].bids # written[1].bids
  /\ frozenOrderbook.bids = written[1].bids
  /\ FrozenNow = frozenOrderbook

\* what the slice object returned by the last decode holds now: its two
\* arrays are bidPool.slice(0, n) and askPool.slice(0, n), arrays of the
\* pool's level objects, and its header floats are its own
PublishedNow ==
  [bids |-> SubSeq(bidPool, 1, Len(lastDecode.slice.bids)),
   asks |-> SubSeq(askPool, 1, Len(lastDecode.slice.asks)),
   head |-> lastDecode.slice.head]

\* C28: a slice handed to the store never changes: the slice object the
\* last decode returned holds, field for field, what it held when it was
\* passed to updateLiveOrderbook
C28_PublishedImmutable == lastDecode.done => PublishedNow = lastDecode.slice

\* the slice of the last encode that completed, when it has at most
\* MAX_DEPTH levels a side and no encode is under way
Encoded ==
  /\ wpc = "idle"
  /\ mem.version > 0
  /\ Len(written[mem.version].bids) <= MAX_DEPTH
  /\ Len(written[mem.version].asks) <= MAX_DEPTH

\* SABReader.decode returns, and no step of an encode fell into it
C24_Step ==
  (Encoded /\ rpc = "head" /\ rpc' = "idle" /\ ~overlap) =>
    liveOrderbook' = written[mem.version]

\* C24: for a slice of at most 15 levels a side, decoding the region right
\* after encoding it, with decodeOrderbookSlice and with SABReader.decode,
\* gives the slice back: the same levels in the same order and the same
\* five header floats
C24_BinaryRoundTrip ==
  /\ [][C24_Step]_vars
  /\ [](Encoded => decodeOrderbookSlice(mem) = written[mem.version])

\* a decode after the encode of the two-bid slice returned that slice
C24_Witness ==
  /\ lastDecode.done
  /\ ~lastDecode.overlap
  /\ Encoded
  /\ Len(lastDecode.slice.bids) = 2
  /\ lastDecode.slice = written[mem.version]
  /\ decodeOrderbookSlice(mem) = lastDecode.slice

(***************************************************************************)
(* SpecBE: the Book Engine's level maps (worker/orderbook-processor.ts)    *)
(* under snapshots and deltas whose pairs are drawn from RawPairs.         *)
(***************************************************************************)
\* (price, quantity) strings of a depth message: a price or a quantity that
\* is no number, quantity 0, a positive and a negative quantity, a price
\* with trailing text
RawPairs ==
  { <<"abc", "2">>, <<"1", "abc">>, <<"1", "0">>, <<"1", "2">>,
    <<"2x", "-1">> }

\* the pairs of one side of a message: none, one, or two in order
PairSeqs ==
  {<<>>} \cup {<<x>> : x \in RawPairs} \cup {<<x, y>> : x, y \in RawPairs}

\* the two sides of a message: one side alone, or one pair on each side
Sides ==
  {sd \in [b : PairSeqs, a : PairSeqs] :
     \/ sd.a = <<>>
     \/ sd.b = <<>>
     \/ Len(sd.b) = 1 /\ Len(sd.a) = 1}

BookSnapshotIds == {1}

BookUpdateIds == {2, 3}

OtherVarsBE ==
  <<smVars, envVars, tcVars, started, status, published, shVars, uiVars,
    leVars, sabVars, bcVars>>

\* OrderbookProcessor.applySnapshot
ApplySnapshot ==
  \E sd \in Sides : \E id \in BookSnapshotIds :
    /\ bids' = applySnapshotLevels(EmptyMap, sd.b)
    /\ asks' = applySnapshotLevels(EmptyMap, sd.a)
    /\ lastId' = id
    /\ events' = << <<"applySnapshot", id>> >>
    /\ UNCHANGED OtherVarsBE

\* OrderbookProcessor.applyDelta
ApplyDelta ==
  \E sd \in Sides : \E u \in BookUpdateIds :
    /\ bids' = applyDeltaLevels(bids, sd.b)
    /\ asks' = applyDeltaLevels(asks, sd.a)
    /\ lastId' = u
    /\ events' = << <<"applyDelta", [u |-> u, b |-> sd.b, a |-> sd.a]>> >>
    /\ UNCHANGED OtherVarsBE

NextBE ==
  \/ ApplySnapshot
  \/ ApplyDelta

SpecBE == Init /\ [][NextBE]_vars

(***************************************************************************)
(* Properties of the Book Engine (SpecBE)                                  *)
(***************************************************************************)
\* C19: every level retained on either side has size > 0
C19_PositiveSizes ==
  /\ \A p \in DOMAIN bids : bids[p] > 0
  /\ \A p \in DOMAIN asks : asks[p] > 0

\* the values of OrderbookProcessor.depth the slices are taken with
SliceDepths == {1, 2, MAX_DEPTH}

\* the levels of one side of a slice taken with depth from the map m:
\* at most depth of them, the best-priced levels of m with their sizes, in
\* strict price order, with the running sums of the sizes, which increase
SideShape(levels, m, depth, descending) ==
  /\ Len(levels) <= depth
  /\ {levels[k].price : k \in DOMAIN levels} =
       {p \in DOMAIN m :
          Cardinality({q \in DOMAIN m :
                         IF descending THEN q > p ELSE q < p}) < depth}
  /\ \A k \in DOMAIN levels :
       /\ levels[k].size = m[levels[k].price]
       /\ levels[k].cumulative =
            (IF k = 1 THEN 0 ELSE levels[k - 1].cumulative) + levels[k].size
       /\ k > 1 =>
            /\ IF descending THEN levels[k - 1].price > levels[k].price
                             ELSE levels[k - 1].price < levels[k].price
            /\ levels[k - 1].cumulative < levels[k].cumulative

\* C21: every slice getSlice returns has at most depth levels a side, the
\* best-priced levels of the book, bids strictly descending and asks
\* strictly ascending by price, cumulative the running sum of the sizes
\* and strictly increasing along each side
C21_SliceShape ==
  \A depth \in SliceDepths :
    LET s == getSliceLevels(bids, asks, lastId, depth) IN
    /\ SideShape(s.bids, bids, depth, TRUE)
    /\ SideShape(s.asks, asks, depth, FALSE)

\* C22: when the book has no bids or no asks, the slice holds the
\* populated side only and its spread and midpoint are both 0
C22_OneSidedBook ==
  \A depth \in SliceDepths :
    LET s == getSliceLevels(bids, asks, lastId, depth) IN
    (DOMAIN bids = {} \/ DOMAIN asks = {}) =>
      /\ (s.bids = <<>>) = (DOMAIN bids = {})
      /\ (s.asks = <<>>) = (DOMAIN asks = {})
      /\ s.spread = 0
      /\ s.midpoint = 0

\* the pairs of a side that parse: both strings give a number
ValidAt(pairs) ==
  {k \in DOMAIN pairs :
     ~isNaN(parseFloat(pairs[k][1])) /\ ~isNaN(parseFloat(pairs[k][2]))}

\* the valid pairs of a side that mention price p
Mentions(pairs, p) == {k \in ValidAt(pairs) : parseFloat(pairs[k][1]).n = p}

Latest(S) == CHOOSE k \in S : \A j \in S : j <= k

MentionedPrices(pairs) == {parseFloat(pairs[k][1]).n : k \in ValidAt(pairs)}

\* the side after the delta: at a price no valid pair mentions the level is
\* as before; at a mentioned price the last valid pair decides: quantity 0
\* leaves no level, any other quantity is the level's size
DeltaEffect(before, after, pairs) ==
  /\ DOMAIN after \subseteq DOMAIN before \cup MentionedPrices(pairs)
  /\ \A p \in DOMAIN before \cup MentionedPrices(pairs) :
       IF Mentions(pairs, p) = {}
       THEN p \in DOMAIN after /\ after[p] = before[p]
       ELSE LET qty == parseFloat(pairs[Latest(Mentions(pairs, p))][2]).n IN
            IF qty = 0 THEN p \notin DOMAIN after
            ELSE p \in DOMAIN after /\ after[p] = qty

C20_Step ==
  (events' # <<>> /\ events'[1][1] = "applyDelta") =>
    LET update == events'[1][2] IN
    /\ DeltaEffect(bids, bids', update.b)
    /\ DeltaEffect(asks, asks', update.a)
    /\ lastId' = update.u

\* C20: applyDelta takes the pairs of each side in order: a pair that does
\* not parse is skipped, a pair with quantity 0 removes the level at its
\* price, any other pair sets the level at its price to its quantity; levels
\* no valid pair mentions are unchanged, and last_update_id becomes the
\* delta's final update id
C20_ApplyDeltaEffect == [][C20_Step]_vars

\* a delta over a book holding the prices 1 and 2 has skipped a pair that
\* does not parse and removed the level at price 1: the level at price 2,
\* set by an earlier delta, stands
C20_Witness ==
  /\ events = << <<"applyDelta",
                   [u |-> 3,
                    b |-> << <<"1", "abc">>, <<"1", "0">> >>,
                    a |-> <<>>]>> >>
  /\ bids = [p \in {2} |-> 0 - 1]
  /\ lastId = 3

====
